---- MODULE Spec2Model ----
(***************************************************************************)
(* libuiohook, Windows back end: the hook side (src/windows/input_hook.c)  *)
(* and the posting side (src/windows/post_event.c) as a state machine.     *)
(* The C globals are the variables; every native notification handed to    *)
(* keyboard_hook_event_proc / mouse_hook_event_proc is one action that     *)
(* runs the whole handler, including every call of dispatch_event it       *)
(* makes.  The sink (the registered callback) answers each call by leaving *)
(* the event alone or marking it consumed.  Every call of hook_post_event  *)
(* or hook_post_event_dont_move_mouse is one action too, with the calls of *)
(* SendInput it makes.  hook_run is one action up to its message loop and  *)
(* one action per message the loop is handed, the last of them running on  *)
(* to the return of hook_run; hook_stop is one action.                     *)
(***************************************************************************)
EXTENDS Integers, Sequences, FiniteSets, TLC

VARIABLES
    current_modifiers,  \* input_hook.c:37
    click_count,        \* input_hook.c:45
    click_time,         \* input_hook.c:46
    click_button,       \* input_hook.c:47
    last_click,         \* input_hook.c:48
    event,              \* input_hook.c:51, the one static event buffer
    dispatch,           \* input_hook.c:54
    dispatch_data,      \* input_hook.c:55
    note,               \* the latest call made into the library
    out,                \* the dispatch_event calls made while processing note
    hook_result,        \* what the hook procedure did with note
    calls,              \* the calls out of the library made while processing note
    status,             \* the status the call of note returned, if it returns one
    posted,             \* the caller's event when a post call returned
    hInst,              \* input_hook.c:34
    keyboard_event_hhook,   \* input_hook.c:29
    mouse_event_hhook,  \* input_hook.c:29
    win_event_hhook,    \* input_hook.c:30
    invisible_win_hwnd, \* input_hook.c:31
    run_status,         \* the local status of the hook_run in progress
    pc,                 \* where the hook thread is: outside hook_run or in its loop
    queue,              \* the messages posted to the hook thread, oldest first
    quit,               \* whether PostQuitMessage was called on the hook thread
    helper,             \* whether the input helper is loaded
    class,              \* whether the window class "libuiohook" is registered
    window,             \* whether the window invisible_win_hwnd names exists
    registered,         \* arguments of the latest hook_set_dispatch_proc call
    lastPress,          \* the latest button-down notification and its clicks
    wheelSince,         \* whether a wheel notification came after lastPress
    pressAt,            \* where each held button went down, and the latest press
    pressTime,          \* the tick at which each held button went down, if held
    race,               \* hook_set_dispatch_proc and dispatch_event, store by
                        \* store and load by load, on two threads
    keyLast,            \* per tracked key or button: down or up, as last told
    prevDown            \* the button pressed by the call before note, if any

vars == << current_modifiers, click_count, click_time, click_button, last_click,
           event, dispatch, dispatch_data, note, out, hook_result,
           calls, status, posted,
           hInst, keyboard_event_hhook, mouse_event_hhook, win_event_hhook,
           invisible_win_hwnd, run_status, pc, queue, quit, helper, class, window,
           registered, lastPress, wheelSince, pressAt, pressTime, race, keyLast,
           prevDown >>

----------------------------------------------------------------------------
(* Bounds of the model.                                                    *)

\* Tick counts (DWORD) and their differences (long int) are 32 bits wide in
\* the source; the model keeps the arithmetic and makes them TimeBits wide.
TimeBits == 3
\* Coordinates of notifications range over 0..MaxCoord.
MaxCoord == 1
\* The value hook_get_multi_click_time() returns (configured at run time).
MultiClickTime == 1
\* The click counter is explored in 0..MaxClicks and at the top of its range.
MaxClicks == 2
\* The virtual screen is 1..MaxScreen wide and high.
MaxScreen == 5
\* The most negative display coordinate is in -MaxOffset..0 on each axis.
MaxOffset == 2
\* hook_stop is called while fewer than MaxQueue messages wait in the queue.
MaxQueue == 3

----------------------------------------------------------------------------
(* Constants of uiohook.h and of the Windows headers.                      *)

NULL == "NULL"

MOUSE_NOBUTTON == 0
MOUSE_BUTTON1 == 1
MOUSE_BUTTON2 == 2
MOUSE_BUTTON3 == 3
MOUSE_BUTTON4 == 4
MOUSE_BUTTON5 == 5

XBUTTON1 == 1
XBUTTON2 == 2

USHRT_MAX == 65535

MASK_SHIFT_L == 2^0
MASK_CTRL_L == 2^1
MASK_META_L == 2^2
MASK_ALT_L == 2^3
MASK_SHIFT_R == 2^4
MASK_CTRL_R == 2^5
MASK_META_R == 2^6
MASK_ALT_R == 2^7
MASK_BUTTON1 == 2^8
MASK_BUTTON2 == 2^9
MASK_BUTTON3 == 2^10
MASK_BUTTON4 == 2^11
MASK_BUTTON5 == 2^12
MASK_NUM_LOCK == 2^13
MASK_CAPS_LOCK == 2^14
MASK_SCROLL_LOCK == 2^15

WHEEL_UNIT_SCROLL == 1
WHEEL_BLOCK_SCROLL == 2
WHEEL_VERTICAL_DIRECTION == 3
WHEEL_HORIZONTAL_DIRECTION == 4
\* UINT_MAX in winuser.h; kept as the int with the same bit pattern
WHEEL_PAGESCROLL == -1
WHEEL_DELTA == 120

----------------------------------------------------------------------------
(* Bit operations on unsigned short masks.                                 *)

RECURSIVE BitOr(_, _)
BitOr(a, b) ==
    IF a = 0 THEN b
    ELSE IF b = 0 THEN a
    ELSE (IF a % 2 = 1 \/ b % 2 = 1 THEN 1 ELSE 0) + 2 * BitOr(a \div 2, b \div 2)

RECURSIVE BitAnd(_, _)
BitAnd(a, b) ==
    IF a = 0 \/ b = 0 THEN 0
    ELSE (IF a % 2 = 1 /\ b % 2 = 1 THEN 1 ELSE 0) + 2 * BitAnd(a \div 2, b \div 2)

\* a & ~m on 16 bits
RECURSIVE BitAndNot(_, _)
BitAndNot(a, m) ==
    IF a = 0 THEN 0
    ELSE (IF a % 2 = 1 /\ m % 2 = 0 THEN 1 ELSE 0) + 2 * BitAndNot(a \div 2, m \div 2)

----------------------------------------------------------------------------
(* Modifier mask.                                                          *)

set_modifier_mask(mods, mask) == BitOr(mods, mask)

unset_modifier_mask(mods, mask) == BitAndNot(mods, mask)

\* The mask of a virtual key in the chains of process_key_pressed and
\* process_key_released; 0 for a key that is in neither chain.
KeyMask(vkCode) ==
    CASE vkCode = "VK_LSHIFT"   -> MASK_SHIFT_L
      [] vkCode = "VK_RSHIFT"   -> MASK_SHIFT_R
      [] vkCode = "VK_LCONTROL" -> MASK_CTRL_L
      [] vkCode = "VK_RCONTROL" -> MASK_CTRL_R
      [] vkCode = "VK_LMENU"    -> MASK_ALT_L
      [] vkCode = "VK_RMENU"    -> MASK_ALT_R
      [] vkCode = "VK_LWIN"     -> MASK_META_L
      [] vkCode = "VK_RWIN"     -> MASK_META_R
      [] vkCode = "VK_NUMLOCK"  -> MASK_NUM_LOCK
      [] vkCode = "VK_CAPITAL"  -> MASK_CAPS_LOCK
      [] vkCode = "VK_SCROLL"   -> MASK_SCROLL_LOCK
      [] OTHER                  -> 0

\* The virtual keys initialize_modifiers asks GetKeyState about, in order.
InitKeys ==
    << <<"VK_LSHIFT", MASK_SHIFT_L>>, <<"VK_RSHIFT", MASK_SHIFT_R>>,
       <<"VK_LCONTROL", MASK_CTRL_L>>, <<"VK_RCONTROL", MASK_CTRL_R>>,
       <<"VK_LMENU", MASK_ALT_L>>, <<"VK_RMENU", MASK_ALT_R>>,
       <<"VK_LWIN", MASK_META_L>>, <<"VK_RWIN", MASK_META_R>>,
       <<"VK_LBUTTON", MASK_BUTTON1>>, <<"VK_RBUTTON", MASK_BUTTON2>>,
       <<"VK_MBUTTON", MASK_BUTTON3>>, <<"VK_XBUTTON1", MASK_BUTTON4>>,
       <<"VK_XBUTTON2", MASK_BUTTON5>>,
       <<"VK_NUMLOCK", MASK_NUM_LOCK>>, <<"VK_CAPITAL", MASK_CAPS_LOCK>>,
       <<"VK_SCROLL", MASK_SCROLL_LOCK>> >>

RECURSIVE InitFrom(_, _, _)
InitFrom(mods, down, i) ==
    IF i > Len(InitKeys) THEN mods
    ELSE InitFrom(IF InitKeys[i][1] \in down
                    THEN set_modifier_mask(mods, InitKeys[i][2]) ELSE mods,
                  down, i + 1)

\* down: the virtual keys whose GetKeyState has the high-order bit set.
initialize_modifiers(down) == InitFrom(0, down, 1)

----------------------------------------------------------------------------
(* Dispatch.                                                               *)

\* The program state the handlers work on, as one record.
Globals ==
    [ current_modifiers |-> current_modifiers, click_count |-> click_count,
      click_time |-> click_time, click_button |-> click_button,
      last_click |-> last_click, event |-> event, dispatch |-> dispatch,
      dispatch_data |-> dispatch_data, out |-> << >>,
      hook_result |-> hook_result,
      calls |-> << >>, status |-> "none", posted |-> [type |-> "none"],
      hInst |-> hInst, keyboard_event_hhook |-> keyboard_event_hhook,
      mouse_event_hhook |-> mouse_event_hhook, win_event_hhook |-> win_event_hhook,
      invisible_win_hwnd |-> invisible_win_hwnd, run_status |-> run_status,
      pc |-> pc, queue |-> queue, quit |-> quit, helper |-> helper,
      class |-> class, window |-> window ]

\* hook_set_dispatch_proc that stores the callback and not its user data
hook_set_dispatch_proc_ProcOnly(s, dispatch_proc, user_data) ==
    [s EXCEPT !.dispatch = dispatch_proc]

hook_set_dispatch_proc(s, dispatch_proc, user_data) ==
    [s EXCEPT !.dispatch = dispatch_proc, !.dispatch_data = user_data]

\* What a callback does with an event before it returns: it marks the event
\* consumed (event.reserved = 0x01) or not, and it may call
\* hook_set_dispatch_proc(set.proc, set.data) itself.
NoSet == [call |-> FALSE, proc |-> NULL, data |-> NULL]
Answer(consume, set) == [consume |-> consume, set |-> set]

\* One call of dispatch_event on the static event.  c: the answer of the
\* callback, when there is one to call.  The entry added to out tells the
\* event, who was called, and whether the input helper was loaded then.
dispatch_event(s, c) ==
    IF s.dispatch # NULL
      THEN LET back == [s EXCEPT
                          !.event.reserved = IF c.consume THEN 1 ELSE @,
                          !.out = Append(@, [ helper |-> s.helper,
                                              set |-> c.set,
                                              ev |-> s.event,
                                              to |-> << [proc |-> s.dispatch,
                                                         data |-> s.dispatch_data] >>,
                                              consumed |-> c.consume ])]
           IN  IF c.set.call
                 THEN hook_set_dispatch_proc(back, c.set.proc, c.set.data)
                 ELSE back
      ELSE [s EXCEPT
              !.out = Append(@, [ helper |-> s.helper, set |-> NoSet,
                                  ev |-> s.event,
                                  to |-> << >>, consumed |-> FALSE ])]

\* NotConsumed that never sees the mark
NotConsumed_Ever(ev) == TRUE

\* event.reserved ^ 0x01, as a condition
NotConsumed(ev) == ev.reserved # 1

----------------------------------------------------------------------------
(* Keyboard.                                                               *)

\* keycode_to_scancode of input_helper: the logical keycode of a virtual key.
keycode_to_scancode(vkCode, flags) ==
    CASE vkCode = "VK_LSHIFT"   -> "VC_SHIFT_L"
      [] vkCode = "VK_RSHIFT"   -> "VC_SHIFT_R"
      [] vkCode = "VK_LCONTROL" -> "VC_CONTROL_L"
      [] vkCode = "VK_RCONTROL" -> "VC_CONTROL_R"
      [] vkCode = "VK_LMENU"    -> "VC_ALT_L"
      [] vkCode = "VK_RMENU"    -> "VC_ALT_R"
      [] vkCode = "VK_LWIN"     -> "VC_META_L"
      [] vkCode = "VK_RWIN"     -> "VC_META_R"
      [] vkCode = "VK_NUMLOCK"  -> "VC_NUM_LOCK"
      [] vkCode = "VK_CAPITAL"  -> "VC_CAPS_LOCK"
      [] vkCode = "VK_SCROLL"   -> "VC_SCROLL_LOCK"
      [] vkCode = "VK_A"        -> "VC_A"
      [] OTHER                  -> "VC_UNDEFINED"

\* TypedLoop that leaves the loop once the sink consumed a KeyTyped event
RECURSIVE TypedLoop_UntilConsumed(_, _, _, _, _)
TypedLoop_UntilConsumed(s, kbhook, buffer, sink, i) ==
    IF i > Len(buffer) \/ (i > 1 /\ s.event.reserved = 1) THEN s
    ELSE LET populated ==
                 [s EXCEPT !.event =
                     [ mask |-> s.current_modifiers, type |-> "EVENT_KEY_TYPED",
                       data |-> [ keycode |-> "VC_UNDEFINED",
                                  rawcode |-> kbhook.vkCode,
                                  keychar |-> buffer[i] ], reserved |-> 0,
                       time |-> kbhook.time ]]
         IN  TypedLoop_UntilConsumed(dispatch_event(populated, sink[i + 1]),
                                     kbhook, buffer, sink, i + 1)

\* The loop of process_key_pressed over the characters keycode_to_unicode gave.
\* sink[i + 1] is the sink's answer to the i-th KeyTyped event.
RECURSIVE TypedLoop(_, _, _, _, _)
TypedLoop(s, kbhook, buffer, sink, i) ==
    IF i > Len(buffer) THEN s
    ELSE LET populated ==
                 [s EXCEPT !.event =
                     [ mask |-> s.current_modifiers, type |-> "EVENT_KEY_TYPED",
                       data |-> [ keycode |-> "VC_UNDEFINED",
                                  rawcode |-> kbhook.vkCode,
                                  keychar |-> buffer[i] ], reserved |-> 0,
                       time |-> kbhook.time ]]
         IN  TypedLoop(dispatch_event(populated, sink[i + 1]),
                       kbhook, buffer, sink, i + 1)

\* buffer: what keycode_to_unicode returns for the key, 0 to 2 characters.
process_key_pressed(s, kbhook, buffer, sink) ==
    LET s1 == [s EXCEPT !.current_modifiers =
                   set_modifier_mask(@, KeyMask(kbhook.vkCode))]
        s2 == [s1 EXCEPT !.event =
                   [ mask |-> s1.current_modifiers, type |-> "EVENT_KEY_PRESSED",
                     data |-> [ keycode |->
                                    keycode_to_scancode(kbhook.vkCode, kbhook.flags),
                                rawcode |-> kbhook.vkCode,
                                keychar |-> "CHAR_UNDEFINED" ], reserved |-> 0,
                     time |-> kbhook.time ]]
        s3 == dispatch_event(s2, sink[1])
    IN  IF NotConsumed(s3.event)
          THEN TypedLoop(s3, kbhook, buffer, sink, 1)
          ELSE s3

process_key_released(s, kbhook, sink) ==
    LET s1 == [s EXCEPT !.current_modifiers =
                   unset_modifier_mask(@, KeyMask(kbhook.vkCode))]
        s2 == [s1 EXCEPT !.event =
                   [ mask |-> s1.current_modifiers, type |-> "EVENT_KEY_RELEASED",
                     data |-> [ keycode |->
                                    keycode_to_scancode(kbhook.vkCode, kbhook.flags),
                                rawcode |-> kbhook.vkCode,
                                keychar |-> "CHAR_UNDEFINED" ], reserved |-> 0,
                     time |-> kbhook.time ]]
    IN  dispatch_event(s2, sink[1])

\* The test that ends both hook procedures: CallNextHookEx or swallow.
HookResult(nCode, ev) ==
    IF nCode < 0 \/ NotConsumed(ev) THEN "CallNextHookEx" ELSE "consumed"

\* The switch of keyboard_hook_event_proc.
KeyboardSwitch(s, wParam, kbhook, buffer, sink) ==
    CASE wParam \in {"WM_KEYDOWN", "WM_SYSKEYDOWN"} ->
             process_key_pressed(s, kbhook, buffer, sink)
      [] wParam \in {"WM_KEYUP", "WM_SYSKEYUP"} ->
             process_key_released(s, kbhook, sink)
      [] OTHER -> s

keyboard_hook_event_proc(s, nCode, wParam, kbhook, buffer, sink) ==
    LET s1 == KeyboardSwitch(s, wParam, kbhook, buffer, sink)
    IN  [s1 EXCEPT !.hook_result = HookResult(nCode, s1.event)]

----------------------------------------------------------------------------
(* Mouse.                                                                  *)

TimeMod == 2^TimeBits

\* (long int) (timestamp - click_time): the difference of two tick counts,
\* taken without sign and read as a signed integer of the same width.
Elapsed(timestamp, since) ==
    LET d == (timestamp - since) % TimeMod
    IN  IF d >= TimeMod \div 2 THEN d - TimeMod ELSE d

hook_get_multi_click_time == MultiClickTime

MouseData(button, clicks, pt) ==
    [ button |-> button, clicks |-> clicks, x |-> pt[1], y |-> pt[2] ]

\* SameStreak without the comparison of the buttons
SameStreak_AnyButton(s, button, timestamp) ==
    Elapsed(timestamp, s.click_time) <= hook_get_multi_click_time

\* The test that continues a click streak.
SameStreak(s, button, timestamp) ==
    /\ button = s.click_button
    /\ Elapsed(timestamp, s.click_time) <= hook_get_multi_click_time

\* BelowMax that lets every press count
BelowMax_Always(s) == TRUE

\* click_count < USHRT_MAX
BelowMax(s) == s.click_count < USHRT_MAX

\* click_count is an unsigned short: click_count++ is taken modulo 2^16.
process_button_pressed(s, mshook, button, sink) ==
    LET timestamp == mshook.time
        s1 == IF SameStreak(s, button, timestamp)
                THEN IF BelowMax(s)
                       THEN [s EXCEPT !.click_count = (@ + 1) % (USHRT_MAX + 1)]
                       ELSE s
                ELSE [s EXCEPT !.click_count = 1, !.click_button = button]
        s2 == [s1 EXCEPT !.click_time = timestamp, !.last_click = mshook.pt]
        s3 == [s2 EXCEPT !.event =
                   [ mask |-> s2.current_modifiers, type |-> "EVENT_MOUSE_PRESSED",
                     data |-> MouseData(button, s2.click_count, mshook.pt), reserved |-> 0,
                     time |-> timestamp ]]
    IN  dispatch_event(s3, sink[1])

\* The test that guards the MouseClicked event of a release.
ClickedHere(s, mshook) == NotConsumed(s.event) /\ s.last_click = mshook.pt

process_button_released(s, mshook, button, sink) ==
    LET timestamp == mshook.time
        s1 == [s EXCEPT !.event =
                   [ mask |-> s.current_modifiers, type |-> "EVENT_MOUSE_RELEASED",
                     data |-> MouseData(button, s.click_count, mshook.pt), reserved |-> 0,
                     time |-> timestamp ]]
        s2 == dispatch_event(s1, sink[1])
        s3 == IF ClickedHere(s2, mshook)
                THEN dispatch_event(
                       [s2 EXCEPT !.event =
                           [ mask |-> s2.current_modifiers, type |-> "EVENT_MOUSE_CLICKED",
                             data |-> MouseData(button, s2.click_count, mshook.pt), reserved |-> 0,
                             time |-> timestamp ]],
                       sink[2])
                ELSE s2
    IN  IF button = s3.click_button
           /\ Elapsed(timestamp, s3.click_time) > hook_get_multi_click_time
          THEN [s3 EXCEPT !.click_count = 0]
          ELSE s3

\* MASK_BUTTON1 | MASK_BUTTON2 | MASK_BUTTON3 | MASK_BUTTON4 | MASK_BUTTON5
MASK_BUTTONS ==
    BitOr(MASK_BUTTON1, BitOr(MASK_BUTTON2, BitOr(MASK_BUTTON3,
          BitOr(MASK_BUTTON4, MASK_BUTTON5))))

\* event.mask & (MASK_BUTTON1 | ... | MASK_BUTTON5)
mouse_dragged(mask) == BitAnd(mask, MASK_BUTTONS) # 0

\* ActuallyMoved that compares the x coordinates only
ActuallyMoved_XOnly(s, mshook) == s.last_click[1] # mshook.pt[1]

\* The test that lets a move through: the position is not last_click.
ActuallyMoved(s, mshook) == s.last_click # mshook.pt

process_mouse_moved(s, mshook, sink) ==
    IF ActuallyMoved(s, mshook)
      THEN LET timestamp == mshook.time
               s1 == IF s.click_count # 0
                        /\ Elapsed(timestamp, s.click_time) > hook_get_multi_click_time
                       THEN [s EXCEPT !.click_count = 0]
                       ELSE s
               s2 == [s1 EXCEPT !.event =
                          [ mask |-> s1.current_modifiers,
                            type |-> IF mouse_dragged(s1.current_modifiers)
                                       THEN "EVENT_MOUSE_DRAGGED"
                                       ELSE "EVENT_MOUSE_MOVED",
                            data |-> MouseData(MOUSE_NOBUTTON, s1.click_count,
                                               mshook.pt),
                            reserved |-> 0,
                            time |-> timestamp ]]
           IN  dispatch_event(s2, sink[1])
      ELSE s

\* wheel_lines: what SystemParametersInfo(SPI_GETWHEELSCROLLLINES) stores
get_scroll_wheel_type(wheel_lines) ==
    IF wheel_lines = WHEEL_PAGESCROLL THEN WHEEL_BLOCK_SCROLL ELSE WHEEL_UNIT_SCROLL

get_scroll_wheel_amount(wheel_lines) ==
    IF wheel_lines = WHEEL_PAGESCROLL THEN 1 ELSE wheel_lines

\* mshook.delta: (int16_t) HIWORD(mshook->mouseData)
\* WheelReset that leaves the previous button
WheelReset_KeepButton(s) == [s EXCEPT !.click_count = 1]

\* The reset of the click count and of the previous button by a wheel.
WheelReset(s) == [s EXCEPT !.click_count = 1, !.click_button = MOUSE_NOBUTTON]

process_mouse_wheel(s, mshook, direction, sink) ==
    LET s1 == WheelReset(s)
        s2 == [s1 EXCEPT !.event =
                   [ mask |-> s1.current_modifiers, type |-> "EVENT_MOUSE_WHEEL",
                     data |-> [ type |-> get_scroll_wheel_type(mshook.wheel_lines),
                                clicks |-> s1.click_count, x |-> mshook.pt[1],
                                y |-> mshook.pt[2],
                                direction |-> direction,
                                amount |-> get_scroll_wheel_amount(mshook.wheel_lines),
                                rotation |-> IF direction = WHEEL_VERTICAL_DIRECTION
                                               THEN mshook.delta * (-1)
                                               ELSE mshook.delta ], reserved |-> 0,
                     time |-> mshook.time ]]
    IN  dispatch_event(s2, sink[1])

\* WM_XBUTTONDOWN / WM_NCXBUTTONDOWN; hi: HIWORD(mshook->mouseData)
XButtonDown(s, mshook, sink) ==
    LET hi == mshook.hiword IN
    IF hi = XBUTTON1
      THEN process_button_pressed(
             [s EXCEPT !.current_modifiers = set_modifier_mask(@, MASK_BUTTON4)],
             mshook, MOUSE_BUTTON4, sink)
    ELSE IF hi = XBUTTON2
      THEN process_button_pressed(
             [s EXCEPT !.current_modifiers = set_modifier_mask(@, MASK_BUTTON5)],
             mshook, MOUSE_BUTTON5, sink)
    ELSE LET button == hi
             s1 == IF button = 4
                     THEN [s EXCEPT !.current_modifiers =
                              set_modifier_mask(@, MOUSE_BUTTON4)]
                   ELSE IF button = 5
                     THEN [s EXCEPT !.current_modifiers =
                              set_modifier_mask(@, MOUSE_BUTTON5)]
                   ELSE s
         IN  process_button_pressed(s1, mshook, button, sink)

\* WM_XBUTTONUP / WM_NCXBUTTONUP
XButtonUp(s, mshook, sink) ==
    LET hi == mshook.hiword IN
    IF hi = XBUTTON1
      THEN process_button_released(
             [s EXCEPT !.current_modifiers = unset_modifier_mask(@, MASK_BUTTON4)],
             mshook, MOUSE_BUTTON4, sink)
    ELSE IF hi = XBUTTON2
      THEN process_button_released(
             [s EXCEPT !.current_modifiers = unset_modifier_mask(@, MASK_BUTTON5)],
             mshook, MOUSE_BUTTON5, sink)
    ELSE LET button == hi
             s1 == IF button = 4
                     THEN [s EXCEPT !.current_modifiers =
                              unset_modifier_mask(@, MOUSE_BUTTON4)]
                   ELSE IF button = 5
                     THEN [s EXCEPT !.current_modifiers =
                              unset_modifier_mask(@, MOUSE_BUTTON5)]
                   ELSE s
         IN  process_button_released(s1, mshook, MOUSE_BUTTON5, sink)

\* The switch of mouse_hook_event_proc.
MouseSwitch(s, wParam, mshook, sink) ==
    CASE wParam = "WM_LBUTTONDOWN" ->
             process_button_pressed(
               [s EXCEPT !.current_modifiers = set_modifier_mask(@, MASK_BUTTON1)],
               mshook, MOUSE_BUTTON1, sink)
      [] wParam = "WM_RBUTTONDOWN" ->
             process_button_pressed(
               [s EXCEPT !.current_modifiers = set_modifier_mask(@, MASK_BUTTON2)],
               mshook, MOUSE_BUTTON2, sink)
      [] wParam = "WM_MBUTTONDOWN" ->
             process_button_pressed(
               [s EXCEPT !.current_modifiers = set_modifier_mask(@, MASK_BUTTON3)],
               mshook, MOUSE_BUTTON3, sink)
      [] wParam \in {"WM_XBUTTONDOWN", "WM_NCXBUTTONDOWN"} ->
             XButtonDown(s, mshook, sink)
      [] wParam = "WM_LBUTTONUP" ->
             process_button_released(
               [s EXCEPT !.current_modifiers = unset_modifier_mask(@, MASK_BUTTON1)],
               mshook, MOUSE_BUTTON1, sink)
      [] wParam = "WM_RBUTTONUP" ->
             process_button_released(
               [s EXCEPT !.current_modifiers = unset_modifier_mask(@, MASK_BUTTON2)],
               mshook, MOUSE_BUTTON2, sink)
      [] wParam = "WM_MBUTTONUP" ->
             process_button_released(
               [s EXCEPT !.current_modifiers = unset_modifier_mask(@, MASK_BUTTON3)],
               mshook, MOUSE_BUTTON3, sink)
      [] wParam \in {"WM_XBUTTONUP", "WM_NCXBUTTONUP"} ->
             XButtonUp(s, mshook, sink)
      [] wParam = "WM_MOUSEMOVE" ->
             process_mouse_moved(s, mshook, sink)
      [] wParam = "WM_MOUSEWHEEL" ->
             process_mouse_wheel(s, mshook, WHEEL_VERTICAL_DIRECTION, sink)
      [] wParam = "WM_MOUSEHWHEEL" ->
             process_mouse_wheel(s, mshook, WHEEL_HORIZONTAL_DIRECTION, sink)
      [] OTHER -> s

mouse_hook_event_proc(s, nCode, wParam, mshook, sink) ==
    LET s1 == MouseSwitch(s, wParam, mshook, sink)
    IN  [s1 EXCEPT !.hook_result = HookResult(nCode, s1.event)]

\* EVENT_OBJECT_NAMECHANGE: the hooks are set again and the mask is rebuilt.
win_hook_event_proc(s, down) ==
    [s EXCEPT !.current_modifiers = initialize_modifiers(down)]

----------------------------------------------------------------------------
(* Posting: post_event.c.  The functions work on w, the world of one call: *)
(* the caller's event, the calls made so far, the display geometry, and    *)
(* what calloc and SendInput are going to answer, in the order asked.      *)

UIOHOOK_SUCCESS == "UIOHOOK_SUCCESS"
UIOHOOK_FAILURE == "UIOHOOK_FAILURE"
UIOHOOK_ERROR_OUT_OF_MEMORY == "UIOHOOK_ERROR_OUT_OF_MEMORY"

MASK_SHIFT == BitOr(MASK_SHIFT_L, MASK_SHIFT_R)

MAX_WINDOWS_COORD_VALUE == 2^16

extend_key_table ==
    << "VK_UP", "VK_DOWN", "VK_LEFT", "VK_RIGHT", "VK_HOME", "VK_END",
       "VK_PRIOR", "VK_NEXT", "VK_INSERT", "VK_DELETE" >>

\* The value scancode_to_keycode returns for a keycode it does not know.
VK_NOT_FOUND == "0x0000"

\* scancode_to_keycode of input_helper: the virtual key of a logical keycode.
scancode_to_keycode(keycode) ==
    CASE keycode = "VC_A"      -> "VK_A"
      [] keycode = "VC_UP"     -> "VK_UP"
      [] keycode = "VC_DOWN"   -> "VK_DOWN"
      [] keycode = "VC_LEFT"   -> "VK_LEFT"
      [] keycode = "VC_RIGHT"  -> "VK_RIGHT"
      [] keycode = "VC_HOME"   -> "VK_HOME"
      [] keycode = "VC_END"    -> "VK_END"
      [] keycode = "VC_PAGE_UP"   -> "VK_PRIOR"
      [] keycode = "VC_PAGE_DOWN" -> "VK_NEXT"
      [] keycode = "VC_INSERT" -> "VK_INSERT"
      [] keycode = "VC_DELETE" -> "VK_DELETE"
      [] OTHER                 -> VK_NOT_FOUND

\* abs that leaves the sign
abs_Signed(n) == n

abs(n) == IF n < 0 THEN -n ELSE n

\* MulDiv of the Windows API: a * b / c rounded to the nearest integer, -1
\* when c is 0 or the result does not fit a 32-bit int.
MulDiv(nNumber, nNumerator, nDenominator) ==
    IF nDenominator = 0 THEN -1
    ELSE LET n == abs(nNumber * nNumerator)
             d == abs(nDenominator)
             q == (n + d \div 2) \div d
             r == IF (nNumber * nNumerator < 0) # (nDenominator < 0) THEN -q ELSE q
         IN  IF r > 2147483647 \/ r < -2147483647 - 1 THEN -1 ELSE r

get_absolute_coordinate(coordinate, screen_size) ==
    MulDiv(coordinate, MAX_WINDOWS_COORD_VALUE, screen_size)

normalize_coordinates(x, y, screen_width, screen_height, lnc) ==
    LET x1 == x + abs(lnc.left)
        y1 == y + abs(lnc.top)
        x2 == IF x1 = 0 THEN x1 + 1 ELSE x1
        y2 == IF y1 = 0 THEN y1 + 1 ELSE y1
    IN  [ x |-> get_absolute_coordinate(x2, screen_width),
          y |-> get_absolute_coordinate(y2, screen_height) ]

\* The INPUT calloc returns: all zero (INPUT_MOUSE is 0).
ZeroInput ==
    [ type |-> "INPUT_MOUSE", dwFlags |-> {}, mouseData |-> 0, dx |-> 0, dy |-> 0,
      wVk |-> VK_NOT_FOUND, wScan |-> VK_NOT_FOUND ]

\* One call out of the library, with what it was given and what it answered.
Called(w, call, input, ok) ==
    [w EXCEPT !.calls = Append(@, [call |-> call, input |-> input, ok |-> ok])]

\* The loop of map_keyboard_event over extend_key_table, from entry i on.
RECURSIVE ExtendLoop(_, _, _)
ExtendLoop(dwFlags, wVk, i) ==
    IF i <= Len(extend_key_table) /\ wVk = extend_key_table[i]
      THEN ExtendLoop(dwFlags \cup {"KEYEVENTF_EXTENDEDKEY"}, wVk, i + 1)
      ELSE dwFlags

\* LookupFailed that accepts every answer of the lookup
LookupFailed_Never(wVk) == FALSE

\* input->ki.wVk == 0x0000
LookupFailed(wVk) == wVk = VK_NOT_FOUND

map_keyboard_event(w, input) ==
    LET in1 == [input EXCEPT !.type = "INPUT_KEYBOARD"]
        known == w.event.type \in {"EVENT_KEY_PRESSED", "EVENT_KEY_RELEASED"}
        \* KEYEVENTF_KEYDOWN is 0x0000
        in2 == [in1 EXCEPT !.dwFlags = IF w.event.type = "EVENT_KEY_PRESSED"
                                         THEN {} ELSE {"KEYEVENTF_KEYUP"}]
        in3 == [in2 EXCEPT !.wVk = scancode_to_keycode(w.event.data.keycode)]
        in4 == [in3 EXCEPT !.wScan = "scan of " \o in3.wVk]
        in5 == IF BitAnd(w.event.mask, MASK_SHIFT) # 0
                 THEN [in4 EXCEPT !.dwFlags = ExtendLoop(@, in4.wVk, 1)]
                 ELSE in4
    IN  IF ~known THEN [status |-> UIOHOOK_FAILURE, w |-> w, input |-> in1]
        ELSE IF LookupFailed(in3.wVk)
          THEN [status |-> UIOHOOK_FAILURE, w |-> w, input |-> in3]
        ELSE [status |-> UIOHOOK_SUCCESS, w |-> w, input |-> in5]

\* NoButton that lets every button through
NoButton_Never(ev) == FALSE

\* event->data.mouse.button == MOUSE_NOBUTTON
NoButton(ev) == ev.data.button = MOUSE_NOBUTTON

\* dwFlags and mouseData of a button event; updown is "DOWN" or "UP".
ButtonInput(input, button, updown) ==
    IF button = MOUSE_BUTTON1
      THEN [input EXCEPT !.dwFlags = {"MOUSEEVENTF_LEFT" \o updown}]
    ELSE IF button = MOUSE_BUTTON2
      THEN [input EXCEPT !.dwFlags = {"MOUSEEVENTF_RIGHT" \o updown}]
    ELSE IF button = MOUSE_BUTTON3
      THEN [input EXCEPT !.dwFlags = {"MOUSEEVENTF_MIDDLE" \o updown}]
    ELSE [input EXCEPT !.dwFlags = {"MOUSEEVENTF_X" \o updown},
                       !.mouseData = IF button = MOUSE_BUTTON4 THEN XBUTTON1
                                     ELSE IF button = MOUSE_BUTTON5 THEN XBUTTON2
                                     ELSE button - 3]

RECURSIVE do_hook_post_event(_, _)

\* hook_post_event that leaves the pointer where it is
hook_post_event_NoMove(w) == do_hook_post_event(w, FALSE)

hook_post_event(w) == do_hook_post_event(w, TRUE)

\* The move map_mouse_event posts before a button event: the event goes out
\* as MouseMoved, the status of that post is dropped, and the event comes
\* back as MousePressed.
MoveFirst(w) ==
    LET moved == hook_post_event([w EXCEPT !.event.type = "EVENT_MOUSE_MOVED"])
    IN  [moved.w EXCEPT !.event.type = "EVENT_MOUSE_PRESSED"]

map_mouse_event(w, input, move_mouse) ==
    LET in1 == [input EXCEPT !.type = "INPUT_MOUSE", !.mouseData = 0]
        \* uint16_t screen_width, screen_height
        nc == normalize_coordinates(w.event.data.x, w.event.data.y,
                                    w.metrics.width % 2^16, w.metrics.height % 2^16,
                                    w.metrics.lnc)
        in2 == IF move_mouse THEN [in1 EXCEPT !.dx = nc.x, !.dy = nc.y] ELSE in1
        type == w.event.type
    IN  CASE type \in {"EVENT_MOUSE_PRESSED", "EVENT_MOUSE_RELEASED"} ->
                 IF NoButton(w.event)
                   THEN [status |-> UIOHOOK_FAILURE, w |-> w, input |-> in2]
                   ELSE [ status |-> UIOHOOK_SUCCESS,
                          w |-> IF move_mouse THEN MoveFirst(w) ELSE w,
                          input |-> ButtonInput(in2, w.event.data.button,
                                                IF type = "EVENT_MOUSE_PRESSED"
                                                  THEN "DOWN" ELSE "UP") ]
          [] type = "EVENT_MOUSE_WHEEL" ->
                 [ w |-> w,
                   \* mouseData is a DWORD: kept as the int with the same bits
                   input |-> [in2 EXCEPT !.dwFlags = {"MOUSEEVENTF_WHEEL"},
                                         !.mouseData = w.event.data.amount
                                                         * w.event.data.rotation],
                   status |-> UIOHOOK_SUCCESS ]
          [] type \in {"EVENT_MOUSE_DRAGGED", "EVENT_MOUSE_MOVED"} ->
                 [ status |-> UIOHOOK_SUCCESS,
                   w |-> w,
                   input |-> [in2 EXCEPT !.dwFlags = {"MOUSEEVENTF_ABSOLUTE",
                                                      "MOUSEEVENTF_MOVE",
                                                      "MOUSEEVENTF_VIRTUALDESK"}] ]
          [] OTHER -> [status |-> UIOHOOK_FAILURE, w |-> w, input |-> in2]

\* The switch of do_hook_post_event on the event type.
PostSwitch(w, input, move_mouse) ==
    CASE w.event.type \in {"EVENT_KEY_PRESSED", "EVENT_KEY_RELEASED"} ->
             map_keyboard_event(w, input)
      [] w.event.type \in {"EVENT_MOUSE_PRESSED", "EVENT_MOUSE_RELEASED",
                           "EVENT_MOUSE_WHEEL", "EVENT_MOUSE_MOVED",
                           "EVENT_MOUSE_DRAGGED"} ->
             map_mouse_event(w, input, move_mouse)
      [] OTHER -> [status |-> UIOHOOK_FAILURE, w |-> w, input |-> input]

\* ShouldSend that injects whatever the mapping returned
ShouldSend_Always(mapped) == TRUE

\* status == UIOHOOK_SUCCESS, the first half of the condition on SendInput
ShouldSend(mapped) == mapped = UIOHOOK_SUCCESS

do_hook_post_event(w, move_mouse) ==
    LET w1 == Called([w EXCEPT !.allocs = Tail(@)], "calloc", ZeroInput, Head(w.allocs))
    IN  IF ~Head(w.allocs)
          THEN [status |-> UIOHOOK_ERROR_OUT_OF_MEMORY, w |-> w1]
          ELSE LET r == PostSwitch(w1, ZeroInput, move_mouse)
               IN  IF ShouldSend(r.status)
                     THEN [ status |-> IF Head(r.w.sends) THEN r.status
                                                          ELSE UIOHOOK_FAILURE,
                            w |-> Called([r.w EXCEPT !.sends = Tail(@)], "SendInput",
                                         r.input, Head(r.w.sends)) ]
                     ELSE [status |-> r.status, w |-> r.w]

\* hook_post_event_dont_move_mouse that moves the pointer
hook_post_event_dont_move_mouse_Moving(w) == do_hook_post_event(w, TRUE)

hook_post_event_dont_move_mouse(w) == do_hook_post_event(w, FALSE)

----------------------------------------------------------------------------
(* The run: hook_run up to its message loop, the loop, the way out of it,  *)
(* and hook_stop.                                                          *)

UIOHOOK_ERROR_GET_MODULE_HANDLE == "UIOHOOK_ERROR_GET_MODULE_HANDLE"
UIOHOOK_ERROR_CREATE_INVISIBLE_WINDOW == "UIOHOOK_ERROR_CREATE_INVISIBLE_WINDOW"
UIOHOOK_ERROR_SET_WINDOWS_HOOK_EX == "UIOHOOK_ERROR_SET_WINDOWS_HOOK_EX"

load_input_helper(s) ==
    Called([s EXCEPT !.helper = TRUE], "load_input_helper", NULL, TRUE)

unload_input_helper(s) ==
    Called([s EXCEPT !.helper = FALSE], "unload_input_helper", NULL, TRUE)

\* One call of UnhookWinEvent or UnhookWindowsHookEx, made when the handle
\* is not NULL.
Unhook(s, call, handle) ==
    IF handle # NULL THEN Called(s, call, handle, TRUE) ELSE s

\* unregister_running_hooks that leaves every hook where it is
unregister_running_hooks_None(s) == s

unregister_running_hooks(s) ==
    LET s1 == Unhook(s, "UnhookWinEvent", s.win_event_hhook)
        s2 == Unhook(s1, "UnhookWindowsHookEx", s.keyboard_event_hhook)
        s3 == Unhook(s2, "UnhookWindowsHookEx", s.mouse_event_hhook)
    IN  [s3 EXCEPT !.win_event_hhook = NULL, !.keyboard_event_hhook = NULL,
                   !.mouse_event_hhook = NULL]

\* The static event as hook_start_proc and hook_stop_proc fill it in; the
\* data of the event before stays where it is.
LifecycleEvent(s, type, timestamp) ==
    [s EXCEPT !.event.time = timestamp, !.event.reserved = 0,
              !.event.type = type, !.event.mask = 0]

hook_start_proc(s, timestamp, c) ==
    dispatch_event(LifecycleEvent(load_input_helper(s), "EVENT_HOOK_ENABLED", timestamp), c)

\* hook_stop_proc that releases the helper before it dispatches
hook_stop_proc_UnloadFirst(s, timestamp, c) ==
    dispatch_event(LifecycleEvent(unload_input_helper(s), "EVENT_HOOK_DISABLED", timestamp), c)

hook_stop_proc(s, timestamp, c) ==
    unload_input_helper(
        dispatch_event(LifecycleEvent(s, "EVENT_HOOK_DISABLED", timestamp), c))

\* RegisterClassEx refuses a class that is registered already, and nothing
\* unregisters "libuiohook"; winok: whether CreateWindowEx gives a window.
\* The result is the state and what the function returns.
create_invisible_window(s, winok) ==
    IF s.class
      THEN [s |-> Called(s, "RegisterClassEx", NULL, FALSE), ret |-> 0]
      ELSE LET s1 == Called([s EXCEPT !.class = TRUE], "RegisterClassEx", NULL, TRUE)
               s2 == Called([s1 EXCEPT !.invisible_win_hwnd =
                                           IF winok THEN "hwnd" ELSE NULL,
                                       !.window = winok],
                            "CreateWindowEx", NULL, winok)
           IN  [s |-> s2, ret |-> IF winok THEN 1 ELSE 0]

\* hook_run from line 867 to its return.
RunEnd(s, timestamp, c) ==
    LET s1 == hook_stop_proc(unregister_running_hooks(s), timestamp, c)
    IN  [s1 EXCEPT !.status = s.run_status, !.pc = "idle"]

\* hook_run from its entry to the first GetMessage, or to its return when
\* the hooks could not be set.  env: what the system answers, env.fresh:
\* whether the thread is one that has not run hook_run before.
hook_run(s, env, timestamp, c) ==
    LET s0 == [s EXCEPT !.run_status = UIOHOOK_FAILURE,
                        !.queue = IF env.fresh THEN << >> ELSE @,
                        !.quit = IF env.fresh THEN FALSE ELSE @]
        s1 == IF s0.hInst = NULL
                THEN IF env.module
                       THEN load_input_helper([s0 EXCEPT !.hInst = "hInst"])
                       ELSE [s0 EXCEPT !.run_status = UIOHOOK_ERROR_GET_MODULE_HANDLE]
                ELSE s0
        made == create_invisible_window(s1, env.winok)
        s2 == IF made.ret = 0 \/ made.s.invisible_win_hwnd = NULL
                THEN [made.s EXCEPT !.run_status = UIOHOOK_ERROR_CREATE_INVISIBLE_WINDOW]
                ELSE made.s
        s3 == [s2 EXCEPT
                 !.keyboard_event_hhook = IF env.kbok THEN "hhook" ELSE NULL,
                 !.mouse_event_hhook = IF env.msok THEN "hhook" ELSE NULL,
                 !.win_event_hhook = IF env.weok THEN "hhook" ELSE NULL]
    IN  IF s3.keyboard_event_hhook # NULL /\ s3.mouse_event_hhook # NULL
          THEN LET s4 == [s3 EXCEPT
                            !.current_modifiers = initialize_modifiers(env.down),
                            !.run_status = UIOHOOK_SUCCESS]
               IN  [hook_start_proc(s4, timestamp, c[1]) EXCEPT !.pc = "loop"]
          ELSE RunEnd([s3 EXCEPT !.run_status = UIOHOOK_ERROR_SET_WINDOWS_HOOK_EX],
                      timestamp, c[1])

\* WndProc for WM_CLOSE: DestroyWindow sends WM_DESTROY, which calls
\* PostQuitMessage.
WndProc(s, message) ==
    IF message = "WM_CLOSE" /\ s.window
      THEN [s EXCEPT !.window = FALSE, !.quit = TRUE]
      ELSE s

\* One turn of the loop of hook_run on a posted message or on the quit
\* flag: GetMessage hands out the oldest posted message, and WM_QUIT for the
\* flag when no message is left; WM_QUIT ends the loop and the run.
GetMessage(s, timestamp, c) ==
    IF s.queue # << >>
      THEN LET rest == [s EXCEPT !.queue = Tail(@)]
           IN  IF Head(s.queue) = "WM_QUIT"
                 THEN RunEnd(rest, timestamp, c[1])
                 ELSE WndProc(rest, Head(s.queue))
      ELSE RunEnd([s EXCEPT !.quit = FALSE], timestamp, c[1])

\* PostMessage reaches a window that exists, and with a NULL handle the
\* queue of the calling thread; PostThreadMessage reaches the hook thread
\* while it is in its loop.
hook_stop(s) ==
    IF s.window \/ s.invisible_win_hwnd = NULL
      THEN LET s1 == IF s.window THEN [s EXCEPT !.queue = Append(@, "WM_CLOSE")] ELSE s
           IN  IF s1.pc = "loop"
                 THEN [s1 EXCEPT !.queue = Append(@, "WM_QUIT"),
                                 !.status = UIOHOOK_SUCCESS]
                 ELSE [s1 EXCEPT !.status = UIOHOOK_FAILURE]
      ELSE [s EXCEPT !.status = UIOHOOK_FAILURE]

----------------------------------------------------------------------------
(* The environment: what is recorded about the calls made so far.          *)

\* The positions notifications carry: the points of the two axes.
Points == {p \in (0..MaxCoord) \X (0..MaxCoord) : p[1] = 0 \/ p[2] = 0}

Buttons == MOUSE_BUTTON1..MOUSE_BUTTON5

DownMsgs == {"WM_LBUTTONDOWN", "WM_RBUTTONDOWN", "WM_MBUTTONDOWN",
             "WM_XBUTTONDOWN", "WM_NCXBUTTONDOWN"}
UpMsgs == {"WM_LBUTTONUP", "WM_RBUTTONUP", "WM_MBUTTONUP",
           "WM_XBUTTONUP", "WM_NCXBUTTONUP"}
XMsgs == {"WM_XBUTTONDOWN", "WM_NCXBUTTONDOWN", "WM_XBUTTONUP", "WM_NCXBUTTONUP"}
WheelMsgs == {"WM_MOUSEWHEEL", "WM_MOUSEHWHEEL"}
KeyDownMsgs == {"WM_KEYDOWN", "WM_SYSKEYDOWN"}
KeyUpMsgs == {"WM_KEYUP", "WM_SYSKEYUP"}

\* The button a button notification is about: left, right, middle, and for
\* the X messages the one HIWORD(mouseData) names (XBUTTON1 is button 4,
\* XBUTTON2 is button 5, any other value is that button number).
NoteButton(wParam, hiword) ==
    CASE wParam \in {"WM_LBUTTONDOWN", "WM_LBUTTONUP"} -> MOUSE_BUTTON1
      [] wParam \in {"WM_RBUTTONDOWN", "WM_RBUTTONUP"} -> MOUSE_BUTTON2
      [] wParam \in {"WM_MBUTTONDOWN", "WM_MBUTTONUP"} -> MOUSE_BUTTON3
      [] wParam \in XMsgs ->
             IF hiword = XBUTTON1 THEN MOUSE_BUTTON4
             ELSE IF hiword = XBUTTON2 THEN MOUSE_BUTTON5
             ELSE hiword
      [] OTHER -> MOUSE_NOBUTTON

ButtonKey(b) ==
    CASE b = MOUSE_BUTTON1 -> "BUTTON1"
      [] b = MOUSE_BUTTON2 -> "BUTTON2"
      [] b = MOUSE_BUTTON3 -> "BUTTON3"
      [] b = MOUSE_BUTTON4 -> "BUTTON4"
      [] b = MOUSE_BUTTON5 -> "BUTTON5"

\* The keys and buttons the mask has a bit for, with that bit.
TrackedBit ==
    [ VK_LSHIFT |-> MASK_SHIFT_L, VK_RSHIFT |-> MASK_SHIFT_R,
      VK_LCONTROL |-> MASK_CTRL_L, VK_RCONTROL |-> MASK_CTRL_R,
      VK_LMENU |-> MASK_ALT_L, VK_RMENU |-> MASK_ALT_R,
      VK_LWIN |-> MASK_META_L, VK_RWIN |-> MASK_META_R,
      BUTTON1 |-> MASK_BUTTON1, BUTTON2 |-> MASK_BUTTON2,
      BUTTON3 |-> MASK_BUTTON3, BUTTON4 |-> MASK_BUTTON4,
      BUTTON5 |-> MASK_BUTTON5,
      VK_NUMLOCK |-> MASK_NUM_LOCK, VK_CAPITAL |-> MASK_CAPS_LOCK,
      VK_SCROLL |-> MASK_SCROLL_LOCK ]

Tracked == DOMAIN TrackedBit

\* The GetKeyState name of a tracked key or button.
StateKey(k) ==
    CASE k = "BUTTON1" -> "VK_LBUTTON"
      [] k = "BUTTON2" -> "VK_RBUTTON"
      [] k = "BUTTON3" -> "VK_MBUTTON"
      [] k = "BUTTON4" -> "VK_XBUTTON1"
      [] k = "BUTTON5" -> "VK_XBUTTON2"
      [] OTHER -> k

NoPress == [ time |-> 0, button |-> MOUSE_NOBUTTON, clicks |-> 0,
             soon |-> FALSE, afterWheel |-> FALSE ]
NoSpot == [pt |-> <<0, 0>>, pressed |-> FALSE]
\* No callback was invoked yet.
NoCall == [proc |-> NULL, data |-> NULL, made |-> FALSE]

\* Both threads are outside hook_set_dispatch_proc and dispatch_event, and
\* reg is the one registration made so far.
\*   left, proc, data: the stores hook_set_dispatch_proc has still to make,
\*                     and its arguments
\*   at, fn, arg, toLoad: where dispatch_event is, the callback and the user
\*                     data it loaded for the call, and the loads still to make
\*   called:           the latest invocation of a callback
\*   pairs:            the registrations made so far
Quiescent(reg) ==
    [ proc |-> NULL, data |-> NULL, left |-> {},
      at |-> "idle", fn |-> NULL, arg |-> NULL, toLoad |-> {},
      called |-> NoCall, pairs |-> {reg} ]

\* The ticks of a button that is not held: none; those of a held button are
\* the one tick of its press.
NoTime == << >>
NoNote == [call |-> "none"]

\* The button note pressed, MOUSE_NOBUTTON when note is no button-down.
Pressed(n) ==
    IF n.call = "mouse_hook_event_proc" /\ n.wParam \in DownMsgs
      THEN NoteButton(n.wParam, n.mshook.hiword)
      ELSE MOUSE_NOBUTTON

SetGlobals(s) ==
    /\ current_modifiers' = s.current_modifiers
    /\ click_count' = s.click_count
    /\ click_time' = s.click_time
    /\ click_button' = s.click_button
    /\ last_click' = s.last_click
    /\ event' = s.event
    /\ dispatch' = s.dispatch
    /\ dispatch_data' = s.dispatch_data
    /\ out' = s.out
    /\ hook_result' = s.hook_result
    /\ calls' = s.calls
    /\ status' = s.status
    /\ posted' = s.posted
    /\ hInst' = s.hInst
    /\ keyboard_event_hhook' = s.keyboard_event_hhook
    /\ mouse_event_hhook' = s.mouse_event_hhook
    /\ win_event_hhook' = s.win_event_hhook
    /\ invisible_win_hwnd' = s.invisible_win_hwnd
    /\ run_status' = s.run_status
    /\ pc' = s.pc
    /\ queue' = s.queue
    /\ quit' = s.quit
    /\ helper' = s.helper
    /\ class' = s.class
    /\ window' = s.window

\* The click counter is followed in 0..MaxClicks and in its last two values.
CountInWindow(c) == c <= MaxClicks \/ c >= USHRT_MAX - 1

----------------------------------------------------------------------------
(* Actions: one per call into the library.                                 *)

\* The history variables are instruments: a specification keeps those its
\* claims read (watch names them) and leaves the others as they are.
\*   "press": lastPress, wheelSince, prevDown   "spot": pressAt   "keys": keyLast
\*   "times": pressTime
Keep(watch, name, new, old) == IF name \in watch THEN new ELSE old

\* The registration in effect when o[i] is dispatched, reg being the one in
\* effect when the call began.
RECURSIVE RegisteredAt(_, _, _)
RegisteredAt(reg, o, i) ==
    IF i <= 1 THEN reg
    ELSE IF o[i - 1].set.call
      THEN [proc |-> o[i - 1].set.proc, data |-> o[i - 1].set.data]
    ELSE RegisteredAt(reg, o, i - 1)

\* mouse_hook_event_proc(nCode, wParam, lParam)
MouseNote(nCode, wParam, mshook, sink, watch) ==
    LET s == mouse_hook_event_proc(Globals, nCode, wParam, mshook, sink)
        b == NoteButton(wParam, mshook.hiword)
    IN  /\ CountInWindow(s.click_count)
        /\ SetGlobals(s)
        /\ note' = [call |-> "mouse_hook_event_proc", nCode |-> nCode,
                    wParam |-> wParam, mshook |-> mshook]
        /\ prevDown' = Keep(watch, "press", Pressed(note), prevDown)
        /\ lastPress' = Keep(watch, "press",
                             IF wParam \in DownMsgs
                               THEN [time |-> mshook.time, button |-> b,
                                     clicks |-> s.out[1].ev.data.clicks,
                                     soon |-> /\ lastPress.button # MOUSE_NOBUTTON
                                              /\ (mshook.time - lastPress.time) % TimeMod
                                                   <= MultiClickTime,
                                     afterWheel |-> wheelSince]
                               ELSE lastPress,
                             lastPress)
        /\ wheelSince' = Keep(watch, "press",
                              IF wParam \in WheelMsgs THEN TRUE
                              ELSE IF wParam \in DownMsgs THEN FALSE
                              ELSE wheelSince,
                              wheelSince)
        /\ pressAt' = Keep(watch, "spot",
                           IF wParam \in DownMsgs
                             THEN [ of |-> [pressAt.of EXCEPT ![b] =
                                              [pt |-> mshook.pt, pressed |-> TRUE]],
                                    last |-> mshook.pt ]
                           ELSE IF wParam \in UpMsgs
                             THEN [pressAt EXCEPT !.of[b] = NoSpot]
                           ELSE pressAt,
                           pressAt)
        /\ UNCHANGED race
        /\ pressTime' = Keep(watch, "times",
                             IF wParam \in DownMsgs
                               THEN [pressTime EXCEPT ![b] = <<mshook.time>>]
                             ELSE IF wParam \in UpMsgs
                               THEN [pressTime EXCEPT ![b] = NoTime]
                             ELSE pressTime,
                             pressTime)
        /\ keyLast' = Keep(watch, "keys",
                           IF wParam \in DownMsgs
                             THEN [keyLast EXCEPT ![ButtonKey(b)] = "down"]
                           ELSE IF wParam \in UpMsgs
                             THEN [keyLast EXCEPT ![ButtonKey(b)] = "up"]
                           ELSE keyLast,
                           keyLast)
        /\ registered' = RegisteredAt(registered, s.out, Len(s.out) + 1)

\* keyboard_hook_event_proc(nCode, wParam, lParam)
KeyboardNote(nCode, wParam, kbhook, buffer, sink, watch) ==
    LET s == keyboard_hook_event_proc(Globals, nCode, wParam, kbhook, buffer, sink)
    IN  /\ SetGlobals(s)
        /\ note' = [call |-> "keyboard_hook_event_proc", kbhook |-> kbhook,
                    buffer |-> buffer, nCode |-> nCode, wParam |-> wParam]
        /\ prevDown' = Keep(watch, "press", MOUSE_NOBUTTON, prevDown)
        /\ keyLast' = Keep(watch, "keys",
                           IF kbhook.vkCode \in Tracked /\ wParam \in KeyDownMsgs
                             THEN [keyLast EXCEPT ![kbhook.vkCode] = "down"]
                           ELSE IF kbhook.vkCode \in Tracked /\ wParam \in KeyUpMsgs
                             THEN [keyLast EXCEPT ![kbhook.vkCode] = "up"]
                           ELSE keyLast,
                           keyLast)
        /\ registered' = RegisteredAt(registered, s.out, Len(s.out) + 1)
        /\ UNCHANGED << lastPress, wheelSince, pressAt, pressTime, race >>

\* hook_set_dispatch_proc(dispatch_proc, user_data)
SetDispatch(dispatch_proc, user_data) ==
    LET s == hook_set_dispatch_proc(Globals, dispatch_proc, user_data)
    IN  /\ SetGlobals([s EXCEPT !.hook_result = "none"])
        /\ registered' = [proc |-> dispatch_proc, data |-> user_data]
        /\ note' = [call |-> "hook_set_dispatch_proc"]
        /\ UNCHANGED << lastPress, wheelSince, pressAt, pressTime, race, keyLast, prevDown >>

\* win_hook_event_proc(EVENT_OBJECT_NAMECHANGE): down is what GetKeyState
\* reports at that moment.
WinEvent(down, watch) ==
    LET s == win_hook_event_proc(Globals, down)
    IN  /\ SetGlobals([s EXCEPT !.hook_result = "none"])
        /\ note' = [call |-> "win_hook_event_proc"]
        /\ keyLast' = Keep(watch, "keys",
                           [k \in Tracked |->
                               IF StateKey(k) \in down THEN "down" ELSE "up"],
                           keyLast)
        /\ UNCHANGED << registered, lastPress, wheelSince, pressAt, pressTime, race, prevDown >>

\* hook_post_event(event) or hook_post_event_dont_move_mouse(event), as entry
\* says.  metrics: what GetSystemMetrics and get_largest_negative_coordinates
\* report; allocs, sends: whether the calls of calloc and of SendInput
\* succeed, in the order they are made.
Post(entry, ev, metrics, allocs, sends) ==
    LET w == [ event |-> ev, calls |-> << >>, metrics |-> metrics,
               allocs |-> allocs, sends |-> sends ]
        r == IF entry = "hook_post_event"
               THEN hook_post_event(w)
               ELSE hook_post_event_dont_move_mouse(w)
    IN  /\ SetGlobals([Globals EXCEPT !.calls = r.w.calls, !.status = r.status,
                                      !.posted = r.w.event, !.hook_result = "none"])
        /\ note' = [event |-> ev, call |-> entry, metrics |-> metrics]
        /\ UNCHANGED << registered, lastPress, wheelSince, pressAt, pressTime, race, keyLast, prevDown >>

\* hook_run(), up to where it blocks or returns.  sink answers the
\* lifecycle event it dispatches.
Run(env, timestamp, sink) ==
    LET s == hook_run(Globals, env, timestamp, sink)
    IN  /\ pc = "idle"
        /\ SetGlobals([s EXCEPT !.hook_result = "none"])
        /\ note' = [call |-> "hook_run", env |-> env]
        /\ registered' = RegisteredAt(registered, s.out, Len(s.out) + 1)
        /\ UNCHANGED << lastPress, wheelSince, pressAt, pressTime, race, keyLast, prevDown >>

\* The hook thread, blocked in GetMessage, is handed a posted message or
\* WM_QUIT, and runs on until it blocks again or hook_run returns.
Loop(timestamp, sink) ==
    LET s == GetMessage(Globals, timestamp, sink)
    IN  /\ pc = "loop"
        /\ queue # << >> \/ quit
        /\ SetGlobals([s EXCEPT !.hook_result = "none"])
        /\ note' = [call |-> "GetMessage",
                    message |-> IF queue # << >> THEN Head(queue) ELSE "WM_QUIT"]
        /\ registered' = RegisteredAt(registered, s.out, Len(s.out) + 1)
        /\ UNCHANGED << lastPress, wheelSince, pressAt, pressTime, race, keyLast, prevDown >>

\* hook_stop(), from any thread.
Stop ==
    LET s == hook_stop(Globals)
    IN  /\ Len(queue) < MaxQueue
        /\ SetGlobals([s EXCEPT !.hook_result = "none"])
        /\ note' = [call |-> "hook_stop"]
        /\ UNCHANGED << registered, lastPress, wheelSince, pressAt, pressTime, race, keyLast, prevDown >>

----------------------------------------------------------------------------
(* Initial states.                                                         *)

\* The statics of input_hook.c as the loader leaves them.
ZeroEvent ==
    [ mask |-> 0, type |-> "none", data |-> MouseData(0, 0, <<0, 0>>), reserved |-> 0,
      time |-> 0 ]

\* The process has loaded the library and has not called hook_run: the
\* statics are as the loader leaves them.  hInst is set when the library is
\* a DLL, and the helper may have been loaded with it.
InitIdle(procs) ==
    \E proc \in procs, inst \in {NULL, "hInst"}, loaded \in BOOLEAN :
        /\ current_modifiers = 0
        /\ click_count = 0
        /\ click_time = 0
        /\ click_button = MOUSE_NOBUTTON
        /\ last_click = <<0, 0>>
        /\ event = ZeroEvent
        /\ dispatch = proc
        /\ dispatch_data = IF proc = NULL THEN NULL ELSE "d1"
        /\ note = NoNote
        /\ out = << >>
        /\ hook_result = "none"
        /\ calls = << >>
        /\ status = "none"
        /\ posted = [type |-> "none"]
        /\ hInst = inst
        /\ keyboard_event_hhook = NULL
        /\ mouse_event_hhook = NULL
        /\ win_event_hhook = NULL
        /\ invisible_win_hwnd = NULL
        /\ run_status = "none"
        /\ pc = "idle"
        /\ queue = << >>
        /\ quit = FALSE
        /\ helper = loaded
        /\ class = FALSE
        /\ window = FALSE
        /\ registered = [ proc |-> proc,
                           data |-> IF proc = NULL THEN NULL ELSE "d1" ]
        /\ lastPress = NoPress
        /\ wheelSince = FALSE
        /\ pressAt = [of |-> [b \in Buttons |-> NoSpot], last |-> <<0, 0>>]
        /\ pressTime = [b \in Buttons |-> NoTime]
        /\ race = Quiescent(registered)
        /\ keyLast = [k \in Tracked |-> "up"]
        /\ prevDown = MOUSE_NOBUTTON

\* The first hook_run of the process is blocked in its message loop: the
\* window and the hooks were made and the helper was loaded.
InLoop ==
    /\ hInst = "hInst"
    /\ keyboard_event_hhook = "hhook"
    /\ mouse_event_hhook = "hhook"
    /\ win_event_hhook = "hhook"
    /\ invisible_win_hwnd = "hwnd"
    /\ run_status = UIOHOOK_SUCCESS
    /\ pc = "loop"
    /\ queue = << >>
    /\ quit = FALSE
    /\ helper = TRUE
    /\ class = TRUE
    /\ window = TRUE

\* hook_run has reached its message loop: the mask was built by
\* initialize_modifiers from the keys GetKeyState reported down and nothing
\* has been clicked yet.  proc is the callback the application registered
\* before it called hook_run, NULL when it registered none.
InitFresh(downs, procs) ==
    \E down \in downs, proc \in procs :
        /\ current_modifiers = initialize_modifiers(down)
        /\ click_count = 0
        /\ click_time = 0
        /\ click_button = MOUSE_NOBUTTON
        /\ last_click = <<0, 0>>
        /\ event = ZeroEvent
        /\ dispatch = proc
        /\ dispatch_data = IF proc = NULL THEN NULL ELSE "d1"
        /\ note = NoNote
        /\ out = << >>
        /\ hook_result = "none"
        /\ calls = << >>
        /\ status = "none"
        /\ posted = [type |-> "none"]
        /\ InLoop
        /\ registered = [ proc |-> proc,
                           data |-> IF proc = NULL THEN NULL ELSE "d1" ]
        /\ lastPress = NoPress
        /\ wheelSince = FALSE
        /\ pressAt = [of |-> [b \in Buttons |-> NoSpot], last |-> <<0, 0>>]
        /\ pressTime = [b \in Buttons |-> NoTime]
        /\ race = Quiescent(registered)
        /\ keyLast = [k \in Tracked |->
                         IF StateKey(k) \in down THEN "down" ELSE "up"]
        /\ prevDown = MOUSE_NOBUTTON

\* The state after USHRT_MAX - 1 presses of button 1 at (0, 0), each within
\* the multi-click time of the one before and each released, with a callback
\* registered: the click counter is one step from the top of its range.
InitDeep ==
    /\ current_modifiers = 0
    /\ click_count = USHRT_MAX - 1
    /\ click_time = 0
    /\ click_button = MOUSE_BUTTON1
    /\ last_click = <<0, 0>>
    /\ event = [ mask |-> 0, type |-> "EVENT_MOUSE_CLICKED",
                 data |-> MouseData(MOUSE_BUTTON1, USHRT_MAX - 1, <<0, 0>>),
                 reserved |-> 0,
                 time |-> 0 ]
    /\ dispatch = "cb1"
    /\ dispatch_data = "d1"
    /\ note = [ call |-> "mouse_hook_event_proc", nCode |-> 0,
                wParam |-> "WM_LBUTTONUP",
                mshook |-> [time |-> 0, pt |-> <<0, 0>>, wheel_lines |-> 0,
                            delta |-> 0, hiword |-> 0] ]
    /\ out = << >>
    /\ hook_result = "CallNextHookEx"
    /\ calls = << >>
    /\ status = "none"
    /\ posted = [type |-> "none"]
    /\ InLoop
    /\ registered = [proc |-> "cb1", data |-> "d1"]
    /\ lastPress = [ time |-> 0, button |-> MOUSE_BUTTON1,
                     clicks |-> USHRT_MAX - 1,
                     soon |-> TRUE, afterWheel |-> FALSE ]
    /\ wheelSince = FALSE
    /\ pressAt = [of |-> [b \in Buttons |-> NoSpot], last |-> <<0, 0>>]
    /\ pressTime = [b \in Buttons |-> NoTime]
    /\ race = Quiescent(registered)
    /\ keyLast = [k \in Tracked |-> "up"]
    /\ prevDown = MOUSE_BUTTON1

----------------------------------------------------------------------------
(* Inputs.                                                                 *)

\* the tick counts a notification can carry
Times == 0..(TimeMod - 1)

\* The answers of the callback to the events of one call, in order: it may
\* consume each, and it may register another callback while it handles the
\* first.
Registrations ==
    { [call |-> TRUE, proc |-> NULL, data |-> NULL],
      [call |-> TRUE, proc |-> "cb2", data |-> "d2"] }

Sinks(n) ==
    { sink \in [1..n -> [consume : BOOLEAN, set : {NoSet} \cup Registrations]] :
          \A i \in 2..n : sink[i].set = NoSet }

\* A MSLLHOOKSTRUCT: time, pt, HIWORD(mouseData) as the X button and as the
\* wheel delta, and the system's wheel-scroll-lines setting.
MsHook(time, pt, hiword, delta, wheel_lines) ==
    [ time |-> time, pt |-> pt, wheel_lines |-> wheel_lines, delta |-> delta,
      hiword |-> hiword ]

KbHook(time, vkCode) == [vkCode |-> vkCode, flags |-> 0, time |-> time]

\* HIWORD(mouseData) of an X button message
XData == {XBUTTON1, XBUTTON2, MOUSE_BUTTON4, MOUSE_BUTTON5}

Callbacks == {"cb1", "cb2"}
UserData == {"d1", "d2"}

\* What keycode_to_unicode can give for a key: nothing for a key that types
\* nothing, one character, or two (a dead key followed by a letter).
Buffers(vkCode) ==
    IF vkCode = "VK_A" THEN {<< >>, <<"a">>, <<"^", "a">>} ELSE {<< >>}

----------------------------------------------------------------------------
(* Click counting: button, move and wheel notifications, with a sink that  *)
(* consumes nothing.                                                       *)

Quiet(n) == [i \in 1..n |-> Answer(FALSE, NoSet)]

\* The buttons go down and up at one place in this specification, and the
\* pointer moves away from it.
ClickPoint == <<0, 0>>
AwayPoint == <<MaxCoord, 0>>

ClickDown ==
    \E wParam \in {"WM_LBUTTONDOWN", "WM_RBUTTONDOWN"}, t \in Times :
        MouseNote(0, wParam, MsHook(t, ClickPoint, 0, 0, 0), Quiet(1), {"press"})

\* The ticks of the other notifications, counted from the latest press: the
\* same tick, the first tick past the multi-click time, and half the range.
Later == { (click_time + d) % TimeMod : d \in {0, MultiClickTime + 1, TimeMod \div 2} }

ClickUp ==
    \E wParam \in {"WM_LBUTTONUP", "WM_RBUTTONUP"}, t \in Later :
        MouseNote(0, wParam, MsHook(t, ClickPoint, 0, 0, 0), Quiet(2), {"press"})

ClickMove ==
    \E t \in Later :
        MouseNote(0, "WM_MOUSEMOVE", MsHook(t, AwayPoint, 0, 0, 0), Quiet(1), {"press"})

ClickWheel ==
    \E wParam \in WheelMsgs, t \in Later :
        MouseNote(0, wParam, MsHook(t, ClickPoint, 0, WHEEL_DELTA, 3), Quiet(1), {"press"})

InitClick == InitFresh({{}}, {"cb1"}) \/ InitDeep

NextClick == ClickDown \/ ClickUp \/ ClickMove \/ ClickWheel

SpecClick == InitClick /\ [][NextClick]_vars

----------------------------------------------------------------------------
(* Claims about click counting, checked under SpecClick.                   *)

IsDown(n) == n.call = "mouse_hook_event_proc" /\ n.wParam \in DownMsgs
IsUp(n) == n.call = "mouse_hook_event_proc" /\ n.wParam \in UpMsgs
IsMove(n) == n.call = "mouse_hook_event_proc" /\ n.wParam = "WM_MOUSEMOVE"
IsWheel(n) == n.call = "mouse_hook_event_proc" /\ n.wParam \in WheelMsgs

\* The latest call was a button-down and produced exactly a MousePressed
\* event for button b with the click count c.
PressedIn(o, b, c) ==
    /\ Len(o) = 1
    /\ o[1].ev.type = "EVENT_MOUSE_PRESSED"
    /\ o[1].ev.data.button = b
    /\ o[1].ev.data.clicks = c

PressedWith(b, c) == PressedIn(out, b, c)

\* The time from one tick count to a later one.
Gap(timestamp, since) == (timestamp - since) % TimeMod

\* C1: a press of the button of the previous press, with no wheel
\* notification in between, produces MousePressed with clicks one more than
\* the previous MousePressed when it comes at most the multi-click time after
\* the previous press, and with clicks = 1 when it comes later.
C1_ClicksOneMore ==
    [][ (IsDown(note') /\ lastPress.button = Pressed(note') /\ ~wheelSince)
          => PressedIn(out', Pressed(note'),
                       IF Gap(note'.mshook.time, lastPress.time) <= MultiClickTime
                         THEN lastPress.clicks + 1
                         ELSE 1)
      ]_vars

\* C2: a press of button B directly after a press of a different button A
\* produces MousePressed with clicks = 1 and leaves B as the tracked button,
\* whatever the two timestamps are.
C2_OtherButtonStartsAtOne ==
    (IsDown(note) /\ prevDown # MOUSE_NOBUTTON /\ prevDown # Pressed(note))
        => /\ PressedWith(Pressed(note), 1)
           /\ click_button = Pressed(note)
           /\ click_count = 1

\* Button 2 was pressed directly after button 1 and within the multi-click
\* time of it.
C2_Witness ==
    /\ IsDown(note)
    /\ Pressed(note) = MOUSE_BUTTON2
    /\ prevDown = MOUSE_BUTTON1
    /\ lastPress.soon

\* C6: after a wheel notification the tracked button is MOUSE_NOBUTTON and
\* the click count is 1, and the first press after it, of any button and at
\* any time, produces MousePressed with clicks = 1.
C6_WheelEndsStreak ==
    /\ IsWheel(note) => (click_button = MOUSE_NOBUTTON /\ click_count = 1)
    /\ (IsDown(note) /\ lastPress.afterWheel)
           => PressedWith(Pressed(note), 1)

\* A wheel notification arrived after a press, and the next press came
\* within the multi-click time of the press before the wheel.
C6_Witness ==
    /\ IsDown(note)
    /\ lastPress.afterWheel
    /\ lastPress.soon

----------------------------------------------------------------------------
(* Click positions: buttons 1 and 2 go down and up anywhere and the        *)
(* pointer moves anywhere; the callback may consume each event.            *)

\* The answers of a callback that registers nothing.
Consumes(n) == [1..n -> {Answer(c, NoSet) : c \in BOOLEAN}]

\* A tick past the multi-click time of the latest press, for a press that
\* starts a new streak.
Fresh == (click_time + MultiClickTime + 1) % TimeMod

SpotDown ==
    \E wParam \in {"WM_LBUTTONDOWN", "WM_RBUTTONDOWN"}, pt \in Points,
       sink \in Consumes(1) :
        MouseNote(0, wParam, MsHook(Fresh, pt, 0, 0, 0), sink, {"spot"})

SpotUp ==
    \E wParam \in {"WM_LBUTTONUP", "WM_RBUTTONUP"}, pt \in Points,
       sink \in Consumes(2) :
        MouseNote(0, wParam, MsHook(click_time, pt, 0, 0, 0), sink, {"spot"})

SpotMove ==
    \E pt \in Points, sink \in Consumes(1) :
        MouseNote(0, "WM_MOUSEMOVE", MsHook(click_time, pt, 0, 0, 0), sink, {"spot"})

InitSpot == InitFresh({{}}, {"cb1"})

NextSpot == SpotDown \/ SpotUp \/ SpotMove

SpecSpot == InitSpot /\ [][NextSpot]_vars

\* A MouseClicked event is among the dispatch_event calls o.
ClickedIn(o) == \E i \in 1..Len(o) : o[i].ev.type = "EVENT_MOUSE_CLICKED"

\* C3: the release of a held button dispatches MouseClicked if and only if
\* the callback did not consume the MouseReleased event and the release is at
\* the position where that button went down, presses of other buttons in
\* between or not.
C3_ClickedIffAtOwnPress ==
    [][ LET b == NoteButton(note'.wParam, note'.mshook.hiword)
        IN  (IsUp(note') /\ pressAt.of[b].pressed)
              => (ClickedIn(out') <=> (/\ ~out'[1].consumed
                                       /\ note'.mshook.pt = pressAt.of[b].pt))
      ]_vars

\* C4: a move notification at the position of the latest press dispatches no
\* event, and a move notification at any other position dispatches exactly
\* one event, MouseMoved or MouseDragged.
C4_MoveSuppressedAtClick ==
    IsMove(note)
        => IF note.mshook.pt = pressAt.last
             THEN out = << >>
             ELSE /\ Len(out) = 1
                  /\ out[1].ev.type \in {"EVENT_MOUSE_MOVED", "EVENT_MOUSE_DRAGGED"}

\* A move arrived at the position of a press made away from (0, 0), and
\* nothing was dispatched for it.
C4_Witness ==
    /\ IsMove(note)
    /\ pressAt.last # <<0, 0>>
    /\ note.mshook.pt = pressAt.last
    /\ out = << >>

----------------------------------------------------------------------------
(* The modifier mask: button 1, the X buttons and two keys go down and up, *)
(* the pointer moves, and the window event rebuilds the mask.              *)

MaskButton ==
    \E wParam \in {"WM_LBUTTONDOWN", "WM_LBUTTONUP"} :
        MouseNote(0, wParam,
                  MsHook(IF wParam \in DownMsgs THEN Fresh ELSE click_time,
                         ClickPoint, 0, 0, 0),
                  Quiet(2), {"keys"})

MaskX ==
    \E wParam \in {"WM_XBUTTONDOWN", "WM_XBUTTONUP"}, hiword \in XData :
        MouseNote(0, wParam,
                  MsHook(IF wParam \in DownMsgs THEN Fresh ELSE click_time,
                         ClickPoint, hiword, 0, 0),
                  Quiet(2), {"keys"})

MaskKey ==
    \E wParam \in {"WM_KEYDOWN", "WM_KEYUP"}, vkCode \in {"VK_LSHIFT", "VK_LWIN"} :
        KeyboardNote(0, wParam, KbHook(click_time, vkCode), << >>, Quiet(1),
                     {"keys"})

MaskMove ==
    MouseNote(0, "WM_MOUSEMOVE", MsHook(click_time, AwayPoint, 0, 0, 0),
              Quiet(1), {"keys"})

\* What GetKeyState can report when the window event arrives.
Downs == {{}, {"VK_LSHIFT"}, {"VK_XBUTTON1"}}

MaskWin == \E down \in Downs : WinEvent(down, {"keys"})

InitMask == InitFresh(Downs, {"cb1"})

NextMask == MaskButton \/ MaskX \/ MaskKey \/ MaskMove \/ MaskWin

SpecMask == InitMask /\ [][NextMask]_vars

\* K is down as far as the notifications and GetKeyState have told.
Held(last, k) == last[k] = "down"

\* The bit of K is set in the mask.
BitSet(mods, k) == BitAnd(mods, TrackedBit[k]) # 0

\* The tracked key or button a notification is about, "none" when it is about
\* none.
NoteKey(n) ==
    IF n.call = "mouse_hook_event_proc" /\ n.wParam \in DownMsgs \cup UpMsgs
      THEN ButtonKey(NoteButton(n.wParam, n.mshook.hiword))
    ELSE IF /\ n.call = "keyboard_hook_event_proc"
            /\ n.wParam \in KeyDownMsgs \cup KeyUpMsgs
            /\ n.kbhook.vkCode \in Tracked
      THEN n.kbhook.vkCode
    ELSE "none"

\* C5: a dispatched motion event is MouseDragged if and only if one of the
\* mouse buttons 1..5 is held, and MouseMoved otherwise.
C5_DraggedIffButtonHeld ==
    (IsMove(note) /\ out # << >>)
        => /\ out[1].ev.type \in {"EVENT_MOUSE_MOVED", "EVENT_MOUSE_DRAGGED"}
           /\ out[1].ev.type = "EVENT_MOUSE_DRAGGED"
                <=> \E b \in Buttons : Held(keyLast, ButtonKey(b))

\* C7: after every call the mask bit of each tracked key or button K is set
\* if and only if K is held, and a notification for K leaves the bits of all
\* other tracked keys and buttons as they were.
C7_MaskFollowsKeys ==
    [][ /\ \A k \in Tracked :
               BitSet(current_modifiers', k) <=> Held(keyLast', k)
        /\ NoteKey(note') # "none"
               => \A j \in Tracked \ {NoteKey(note')} :
                      BitSet(current_modifiers', j) <=> BitSet(current_modifiers, j)
      ]_vars

----------------------------------------------------------------------------
(* Dispatch and propagation: a key and button 1 go down and up, the       *)
(* pointer moves, messages the switches do not handle arrive, the callback *)
(* consumes events and registers callbacks, and so does the application.   *)

NCodes == {-1, 0}

HookKeyDown ==
    \E nCode \in NCodes, buffer \in Buffers("VK_A") :
        \E sink \in Sinks(Len(buffer) + 1) :
            KeyboardNote(nCode, "WM_KEYDOWN", KbHook(click_time, "VK_A"), buffer,
                         sink, {})

HookKeyUp ==
    \E sink \in Consumes(1) :
        KeyboardNote(0, "WM_KEYUP", KbHook(click_time, "VK_A"), << >>, sink, {})

HookButton ==
    \E nCode \in NCodes, sink \in Consumes(2) :
        \/ MouseNote(nCode, "WM_LBUTTONDOWN", MsHook(Fresh, ClickPoint, 0, 0, 0),
                     sink, {})
        \/ MouseNote(nCode, "WM_LBUTTONUP", MsHook(click_time, ClickPoint, 0, 0, 0),
                     sink, {})

HookMove ==
    \E pt \in {ClickPoint, AwayPoint}, sink \in Consumes(1) :
        MouseNote(0, "WM_MOUSEMOVE", MsHook(click_time, pt, 0, 0, 0), sink, {})

\* A message neither switch has a case for.
HookOther ==
    \/ MouseNote(0, "WM_NULL", MsHook(click_time, ClickPoint, 0, 0, 0),
                 Quiet(1), {})
    \/ KeyboardNote(0, "WM_NULL", KbHook(click_time, "VK_A"), << >>,
                    Quiet(1), {})

HookSet ==
    \/ SetDispatch(NULL, NULL)
    \/ \E dispatch_proc \in Callbacks, user_data \in UserData :
           SetDispatch(dispatch_proc, user_data)

InitHook == InitFresh({{}}, {NULL, "cb1"})

NextHook ==
    HookKeyDown \/ HookKeyUp \/ HookButton \/ HookMove \/ HookOther \/ HookSet

SpecHook == InitHook /\ [][NextHook]_vars

IsHookProc(n) == n.call \in {"mouse_hook_event_proc", "keyboard_hook_event_proc"}
IsKeyDown(n) == n.call = "keyboard_hook_event_proc" /\ n.wParam \in KeyDownMsgs

\* The callbacks an event goes to under the registration r: the registered
\* one, none when NULL is registered.
Recipients(r) == IF r.proc = NULL THEN << >> ELSE << r >>

\* C8: each event is delivered once, to the callback of the latest
\* hook_set_dispatch_proc call and with its user data, whether that call came
\* between two notifications or from the callback while an earlier event of
\* the same notification was delivered; with NULL registered the event goes
\* to nobody, and a registration delivers nothing.
C8_DeliveredToLatest ==
    [][ /\ \A i \in 1..Len(out') :
               out'[i].to = Recipients(RegisteredAt(registered, out', i))
        /\ note'.call = "hook_set_dispatch_proc" => out' = << >>
      ]_vars

\* The callback registered another callback while it handled KeyPressed, and
\* the KeyTyped event of the same notification went to the new one.
C8_Witness ==
    /\ IsKeyDown(note)
    /\ Len(out) = 2
    /\ out[1].to = << [proc |-> "cb1", data |-> "d1"] >>
    /\ out[1].set.call
    /\ out[2].to = << [proc |-> "cb2", data |-> "d2"] >>

\* C9: a hook procedure withholds a notification from the next hook only if
\* the callback consumed an event dispatched while that notification was
\* processed.
C9_WithheldOnlyIfConsumed ==
    IsHookProc(note)
        => (hook_result = "consumed"
              => \E i \in 1..Len(out) : out[i].consumed)

\* The events of a key-down notification are KeyPressed and then KeyTyped
\* events, the latter only when the callback left KeyPressed unconsumed.
TypedAfterUnconsumed ==
    /\ out[1].ev.type = "EVENT_KEY_PRESSED"
    /\ \A i \in 2..Len(out) :
           out[i].ev.type = "EVENT_KEY_TYPED" /\ ~out[1].consumed

\* C10 as stated: KeyTyped events are dispatched only after the KeyPressed
\* event of the notification came back unconsumed, and when the callback
\* consumes KeyPressed no KeyTyped is dispatched and the notification is
\* withheld from the next hook.
C10_ConsumedKeySuppressed ==
    IsKeyDown(note)
        => /\ TypedAfterUnconsumed
           /\ out[1].consumed => (Len(out) = 1 /\ hook_result = "consumed")

\* C10 as amended: the same, the notification being withheld when its nCode
\* is not negative; with a negative nCode it is passed to the next hook.
C10_ConsumedKeySuppressedUnlessNegative ==
    IsKeyDown(note)
        => /\ TypedAfterUnconsumed
           /\ out[1].consumed
                => /\ Len(out) = 1
                   /\ hook_result = IF note.nCode < 0 THEN "CallNextHookEx"
                                                      ELSE "consumed"

\* The callback consumed the KeyPressed event of a key that types a character,
\* with nCode 0, and the notification was withheld.
C10_Witness ==
    /\ IsKeyDown(note)
    /\ note.nCode = 0
    /\ note.buffer # << >>
    /\ out[1].consumed
    /\ Len(out) = 1
    /\ hook_result = "consumed"

\* C11: an unconsumed KeyPressed of a key that keycode_to_unicode turns into
\* N characters is followed by exactly N KeyTyped events, the i-th carrying
\* the i-th character, whatever the sink answers to the KeyTyped events.
C11_OneTypedPerCharacter ==
    (IsKeyDown(note) /\ ~out[1].consumed)
        => /\ Len(out) = 1 + Len(note.buffer)
           /\ out[1].ev.type = "EVENT_KEY_PRESSED"
           /\ \A i \in 1..Len(note.buffer) :
                  /\ out[i + 1].ev.type = "EVENT_KEY_TYPED"
                  /\ out[i + 1].ev.data.keychar = note.buffer[i]

\* A key gave two characters, the sink consumed the first KeyTyped event and
\* the second was dispatched all the same.
C11_Witness ==
    /\ IsKeyDown(note)
    /\ Len(note.buffer) = 2
    /\ ~out[1].consumed
    /\ out[2].consumed
    /\ Len(out) = 3
    /\ out[3].ev.data.keychar = note.buffer[2]

----------------------------------------------------------------------------
(* Posting: every kind of event through both entry points, with calloc and *)
(* SendInput succeeding or failing.                                        *)

PostEntries == {"hook_post_event", "hook_post_event_dont_move_mouse"}

\* An event as the caller fills it in; the fields a type does not use are 0.
KeyEvent(type, mask, keycode) ==
    [ mask |-> mask, type |-> type,
      data |-> [ keycode |-> keycode, button |-> 0, x |-> 0, y |-> 0,
                 amount |-> 0, rotation |-> 0 ] ]

MouseEvent(type, button, pt, amount, rotation) ==
    [ mask |-> 0, type |-> type,
      data |-> [ keycode |-> "VC_UNDEFINED", button |-> button,
                 x |-> pt[1], y |-> pt[2],
                 amount |-> amount, rotation |-> rotation ] ]

Metrics(width, height, left, top) ==
    [lnc |-> [left |-> left, top |-> top], width |-> width, height |-> height]

\* Display geometries: one display at the origin, and one with a display to
\* the left of and above the primary one.
SomeMetrics ==
    { Metrics(MaxScreen, MaxScreen, 0, 0),
      Metrics(MaxScreen, MaxScreen, -MaxOffset, -MaxOffset) }

\* What calloc and SendInput answer to the calls of one post, in the order
\* they are made: all succeed, or one of them fails.  A post that makes one
\* call of each uses the first answers.
Fate(allocs, sends) == [allocs |-> allocs, sends |-> sends]
OneCallFates ==
    { Fate(<<TRUE, TRUE>>, <<TRUE, TRUE>>), Fate(<<FALSE, TRUE>>, <<TRUE, TRUE>>),
      Fate(<<TRUE, TRUE>>, <<FALSE, TRUE>>) }
TwoCallFates ==
    OneCallFates \cup
    { Fate(<<TRUE, FALSE>>, <<TRUE, TRUE>>), Fate(<<TRUE, TRUE>>, <<TRUE, FALSE>>),
      Fate(<<TRUE, TRUE>>, <<FALSE, FALSE>>) }

\* Keycodes: one with a plain key, two of the extended keys, one unknown.
PostKeycodes == {"VC_A", "VC_UP", "VC_DOWN", "VC_UNDEFINED"}

PostKey ==
    \E entry \in PostEntries, type \in {"EVENT_KEY_PRESSED", "EVENT_KEY_RELEASED"},
       mask \in {0, MASK_SHIFT_L}, keycode \in PostKeycodes, fate \in OneCallFates :
        Post(entry, KeyEvent(type, mask, keycode),
             Metrics(MaxScreen, MaxScreen, 0, 0), fate.allocs, fate.sends)

\* Button events: no button, a plain button, an X button and a button past 5.
PostButtons == {MOUSE_NOBUTTON, MOUSE_BUTTON1, MOUSE_BUTTON4, MOUSE_BUTTON5 + 1}

PostButton ==
    \E entry \in PostEntries, type \in {"EVENT_MOUSE_PRESSED", "EVENT_MOUSE_RELEASED"},
       button \in PostButtons, pt \in {ClickPoint, AwayPoint}, fate \in TwoCallFates :
        Post(entry, MouseEvent(type, button, pt, 0, 0),
             Metrics(MaxScreen, MaxScreen, -MaxOffset, -MaxOffset),
             fate.allocs, fate.sends)

PostMotion ==
    \E entry \in PostEntries, pt \in {ClickPoint, AwayPoint}, metrics \in SomeMetrics,
       fate \in OneCallFates :
        \/ \E type \in {"EVENT_MOUSE_MOVED", "EVENT_MOUSE_DRAGGED"} :
               Post(entry, MouseEvent(type, MOUSE_NOBUTTON, pt, 0, 0),
                    metrics, fate.allocs, fate.sends)
        \/ \E rotation \in {-WHEEL_DELTA, WHEEL_DELTA} :
               Post(entry, MouseEvent("EVENT_MOUSE_WHEEL", MOUSE_NOBUTTON, pt, 3, rotation),
                    metrics, fate.allocs, fate.sends)

\* The events that are reports and cannot be posted.
Informational ==
    {"EVENT_HOOK_ENABLED", "EVENT_HOOK_DISABLED", "EVENT_KEY_TYPED", "EVENT_MOUSE_CLICKED"}

PostOther ==
    \E entry \in PostEntries, type \in Informational, fate \in OneCallFates :
        \/ Post(entry, KeyEvent(type, 0, "VC_A"),
                Metrics(MaxScreen, MaxScreen, 0, 0), fate.allocs, fate.sends)
        \/ Post(entry, MouseEvent(type, MOUSE_BUTTON1, ClickPoint, 0, 0),
                Metrics(MaxScreen, MaxScreen, 0, 0), fate.allocs, fate.sends)

InitPost == InitFresh({{}}, {"cb1"})

NextPost == PostKey \/ PostButton \/ PostMotion \/ PostOther

SpecPost == InitPost /\ [][NextPost]_vars

IsPost(n) == n.call \in PostEntries
IsButtonPost(n) ==
    IsPost(n) /\ n.event.type \in {"EVENT_MOUSE_PRESSED", "EVENT_MOUSE_RELEASED"}

\* The calls of SendInput among the calls made, in order.
Injections(c) == SelectSeq(c, LAMBDA e : e.call = "SendInput")

\* C12: a post of MousePressed or MouseReleased with no button returns a
\* status other than success and calls SendInput not once, not even for the
\* move to the event's position, through either entry point.
C12_NoButtonNoInjection ==
    (IsButtonPost(note) /\ note.event.data.button = MOUSE_NOBUTTON)
        => /\ status # UIOHOOK_SUCCESS
           /\ Injections(calls) = << >>

\* hook_post_event was given a MousePressed event with no button, calloc gave
\* the request, and the call failed without a SendInput.
C12_Witness ==
    /\ note.call = "hook_post_event"
    /\ note.event.type = "EVENT_MOUSE_PRESSED"
    /\ note.event.data.button = MOUSE_NOBUTTON
    /\ Len(calls) = 1 /\ calls[1].call = "calloc" /\ calls[1].ok
    /\ status = UIOHOOK_FAILURE

\* C13: a post of a HookEnabled, HookDisabled, KeyTyped or MouseClicked event
\* through either entry point returns a status other than success and calls
\* SendInput not once.
C13_InformationalNotPosted ==
    (IsPost(note) /\ note.event.type \in Informational)
        => /\ status # UIOHOOK_SUCCESS
           /\ Injections(calls) = << >>

\* A KeyTyped event was posted, calloc gave the request, and the call failed
\* with no other call made.
C13_Witness ==
    /\ IsPost(note)
    /\ note.event.type = "EVENT_KEY_TYPED"
    /\ Len(calls) = 1 /\ calls[1].call = "calloc" /\ calls[1].ok
    /\ status = UIOHOOK_FAILURE

IsKeyPost(n) ==
    IsPost(n) /\ n.event.type \in {"EVENT_KEY_PRESSED", "EVENT_KEY_RELEASED"}

\* C14: a post of KeyPressed or KeyReleased whose keycode the lookup does not
\* know (it answers 0) returns a status other than success and calls
\* SendInput not once, so no key is injected in place of the unknown one.
C14_UnknownKeyNotPosted ==
    (IsKeyPost(note) /\ scancode_to_keycode(note.event.data.keycode) = VK_NOT_FOUND)
        => /\ status # UIOHOOK_SUCCESS
           /\ Injections(calls) = << >>

\* A KeyPressed event with an unknown keycode was posted, calloc gave the
\* request, and the call failed with no other call made.
C14_Witness ==
    /\ IsPost(note)
    /\ note.event.type = "EVENT_KEY_PRESSED"
    /\ note.event.data.keycode = "VC_UNDEFINED"
    /\ Len(calls) = 1 /\ calls[1].call = "calloc" /\ calls[1].ok
    /\ status = UIOHOOK_FAILURE

\* A post of MousePressed or MouseReleased with one of the buttons 1 to 5.
IsValidButtonPost(n) == IsButtonPost(n) /\ n.event.data.button \in Buttons

\* input is an absolute move to the normalized coordinates of the event of n.
IsMoveOf(input, n) ==
    LET nc == normalize_coordinates(n.event.data.x, n.event.data.y,
                                    n.metrics.width, n.metrics.height, n.metrics.lnc)
    IN  /\ input.type = "INPUT_MOUSE"
        /\ {"MOUSEEVENTF_ABSOLUTE", "MOUSEEVENTF_MOVE"} \subseteq input.dwFlags
        /\ input.dx = nc.x /\ input.dy = nc.y

\* input is the button event of n: the button's down flag for MousePressed,
\* its up flag for MouseReleased, and no move.
IsButtonOf(input, n) ==
    /\ input.type = "INPUT_MOUSE"
    /\ input.dwFlags =
           ButtonInput(ZeroInput, n.event.data.button,
                       IF n.event.type = "EVENT_MOUSE_PRESSED" THEN "DOWN" ELSE "UP").dwFlags

\* C15 as stated: hook_post_event for MousePressed or MouseReleased with a
\* valid button calls SendInput exactly twice, first for an absolute move to
\* the normalized coordinates of the event, then for the button event.
C15_MoveThenButton ==
    (note.call = "hook_post_event" /\ IsValidButtonPost(note))
        => LET inj == Injections(calls)
           IN  /\ Len(inj) = 2
               /\ IsMoveOf(inj[1].input, note)
               /\ IsButtonOf(inj[2].input, note)

\* C15 as amended: the two calls of SendInput, the move first and the button
\* event second, are made when calloc gives both requests; when calloc
\* refuses the first request none is made, and when it refuses the request
\* of the move only the button event is injected.  There are never more than
\* these calls, and the button event never comes before the move.
C15_MoveThenButtonWhenAllocated ==
    (note.call = "hook_post_event" /\ IsValidButtonPost(note))
        => LET inj == Injections(calls)
           IN  /\ calls[1].call = "calloc"
               /\ ~calls[1].ok => inj = << >>
               /\ calls[1].ok
                    => /\ calls[2].call = "calloc"
                       /\ calls[2].ok
                            => /\ Len(inj) = 2
                               /\ IsMoveOf(inj[1].input, note)
                               /\ IsButtonOf(inj[2].input, note)
                       /\ ~calls[2].ok
                            => /\ Len(inj) = 1
                               /\ IsButtonOf(inj[1].input, note)

\* hook_post_event was given a MouseReleased event of button 4 away from the
\* origin, both requests were allocated, and the move was injected before
\* the button event.
C15_Witness ==
    /\ note.call = "hook_post_event"
    /\ note.event.type = "EVENT_MOUSE_RELEASED"
    /\ note.event.data.button = MOUSE_BUTTON4
    /\ note.event.data.x = MaxCoord
    /\ Len(calls) = 4
    /\ calls[3].call = "SendInput" /\ IsMoveOf(calls[3].input, note)
    /\ calls[4].call = "SendInput" /\ IsButtonOf(calls[4].input, note)
    /\ calls[4].input.mouseData = XBUTTON1

\* C16: hook_post_event for a button press or release returns success only
\* if the move and the button event were both injected and SendInput
\* succeeded for both; in particular a failed injection of the move makes
\* the call return a status other than success.
C16_SuccessNeedsBothInjections ==
    (note.call = "hook_post_event" /\ IsValidButtonPost(note))
        => LET inj == Injections(calls)
           IN  status = UIOHOOK_SUCCESS
                   => /\ Len(inj) = 2
                      /\ inj[1].ok
                      /\ inj[2].ok

\* C17 as stated: hook_post_event_dont_move_mouse for MousePressed or
\* MouseReleased with a valid button calls SendInput exactly once, for the
\* button event, and never for a move.
C17_ButtonOnly ==
    (note.call = "hook_post_event_dont_move_mouse" /\ IsValidButtonPost(note))
        => LET inj == Injections(calls)
           IN  /\ Len(inj) = 1
               /\ IsButtonOf(inj[1].input, note)

\* C17 as amended: the one call of SendInput, for the button event, is made
\* when calloc gives the request, and none is made when it does not; a move
\* is never injected.
C17_ButtonOnlyWhenAllocated ==
    (note.call = "hook_post_event_dont_move_mouse" /\ IsValidButtonPost(note))
        => LET inj == Injections(calls)
           IN  /\ calls[1].call = "calloc"
               /\ ~calls[1].ok => inj = << >>
               /\ calls[1].ok => (Len(inj) = 1 /\ IsButtonOf(inj[1].input, note))
               /\ \A i \in 1..Len(inj) : "MOUSEEVENTF_MOVE" \notin inj[i].input.dwFlags

\* hook_post_event_dont_move_mouse was given a MousePressed event of button 1
\* away from the origin, and the button event was the only injection.
C17_Witness ==
    /\ note.call = "hook_post_event_dont_move_mouse"
    /\ note.event.type = "EVENT_MOUSE_PRESSED"
    /\ note.event.data.button = MOUSE_BUTTON1
    /\ note.event.data.x = MaxCoord
    /\ Len(calls) = 2
    /\ calls[2].call = "SendInput" /\ calls[2].ok
    /\ calls[2].input.dwFlags = {"MOUSEEVENTF_LEFTDOWN"}
    /\ status = UIOHOOK_SUCCESS

----------------------------------------------------------------------------
(* Normalization: moves posted to every point of every small desktop.      *)

\* The points of the virtual desktop of a geometry: the leftmost column is
\* lnc.left, the topmost row lnc.top.
DesktopPoints(metrics) ==
    { <<x, y>> : x \in metrics.lnc.left .. (metrics.lnc.left + metrics.width - 1),
                 y \in metrics.lnc.top .. (metrics.lnc.top + metrics.height - 1) }

\* Geometries with positive sizes and a largest negative coordinate at or
\* before the origin.
SmallMetrics ==
    { Metrics(width, height, left, top) :
          width \in 1..MaxScreen, height \in 1..MaxScreen,
          left \in -MaxOffset..0, top \in -MaxOffset..0 }

\* The displays stay as they are from the first post on.
Displays == IF note.call \in PostEntries THEN {note.metrics} ELSE SmallMetrics

PostMove ==
    \E metrics \in Displays :
        \E pt \in DesktopPoints(metrics) :
            Post("hook_post_event", MouseEvent("EVENT_MOUSE_MOVED", MOUSE_NOBUTTON, pt, 0, 0),
                 metrics, <<TRUE, TRUE>>, <<TRUE, TRUE>>)

InitNorm == InitFresh({{}}, {"cb1"})

NextNorm == PostMove

SpecNorm == InitNorm /\ [][NextNorm]_vars

\* The rescale back from a normalized coordinate to a logical one: times the
\* screen dimension, over 65536, less the offset that was added.
Denormalize(normalized, screen_size, offset) ==
    (normalized * screen_size) \div MAX_WINDOWS_COORD_VALUE - abs(offset)

WithinOne(a, b) == a - b \in -1..1

IsMovePost(n) == IsPost(n) /\ n.event.type = "EVENT_MOUSE_MOVED"

\* C18: for a move posted to a point inside the virtual desktop, whatever
\* the sizes and the largest negative coordinates, the coordinates handed
\* to SendInput rescale back to within one unit of the point posted, in x
\* and in y, the point nudged off the origin included.
C18_RoundTripWithinOne ==
    IsMovePost(note)
        => LET inj == Injections(calls)
               m == note.metrics
           IN  /\ Len(inj) = 1
               /\ WithinOne(Denormalize(inj[1].input.dx, m.width, m.lnc.left),
                             note.event.data.x)
               /\ WithinOne(Denormalize(inj[1].input.dy, m.height, m.lnc.top),
                             note.event.data.y)

\* A move was posted to the top of the leftmost column of a desktop three
\* wide and three high that begins left of and above the origin, one row
\* down: x was nudged from 0 to 1 and came back as the column it was, y was
\* rounded down and came back one row up.
C18_Witness ==
    /\ IsMovePost(note)
    /\ note.metrics = Metrics(3, 3, -MaxOffset, -MaxOffset)
    /\ note.event.data.x = -MaxOffset
    /\ note.event.data.y = 1 - MaxOffset
    /\ Len(calls) = 2
    /\ calls[2].input.dx = get_absolute_coordinate(1, 3)
    /\ Denormalize(calls[2].input.dx, 3, -MaxOffset) = note.event.data.x
    /\ Denormalize(calls[2].input.dy, 3, -MaxOffset) = note.event.data.y - 1

----------------------------------------------------------------------------
(* Runs: hook_run, notifications while it is in its loop, hook_stop, and   *)
(* hook_run again.                                                         *)

\* What the system answers to one hook_run.
Env(module, winok, kbok, msok, weok, fresh, down) ==
    [ down |-> down, winok |-> winok, fresh |-> fresh, module |-> module,
      kbok |-> kbok, msok |-> msok, weok |-> weok ]

\* All goes well on a thread of its own or on the thread of the run
\* before, or one of the calls fails.
Envs ==
    { Env(TRUE, TRUE, TRUE, TRUE, TRUE, fresh, down) :
          fresh \in BOOLEAN, down \in {{}, {"VK_LSHIFT"}} }
    \cup { Env(FALSE, TRUE, TRUE, TRUE, TRUE, TRUE, {}),
           Env(TRUE, FALSE, TRUE, TRUE, TRUE, TRUE, {}),
           Env(TRUE, TRUE, FALSE, TRUE, TRUE, TRUE, {}),
           Env(TRUE, TRUE, TRUE, FALSE, TRUE, TRUE, {}),
           Env(TRUE, TRUE, TRUE, TRUE, FALSE, TRUE, {}) }

\* The callback consumes a lifecycle event or leaves it alone.
LifecycleSinks == { sink \in Sinks(1) : sink[1].set = NoSet }

RunStart == \E env \in Envs, sink \in LifecycleSinks : Run(env, 0, sink)

RunLoop == \E sink \in LifecycleSinks : Loop(0, sink)

RunStop == Stop

\* The low-level hooks call back while the thread is in its loop.
RunDown ==
    /\ pc = "loop" /\ mouse_event_hhook # NULL
    /\ \E t \in {0, MultiClickTime + 1} :
           MouseNote(0, "WM_LBUTTONDOWN", MsHook(t, ClickPoint, 0, 0, 0), Quiet(1), {})

RunUp ==
    /\ pc = "loop" /\ mouse_event_hhook # NULL
    /\ MouseNote(0, "WM_LBUTTONUP", MsHook(click_time, ClickPoint, 0, 0, 0), Quiet(2), {})

RunKey ==
    /\ pc = "loop" /\ keyboard_event_hhook # NULL
    /\ \E wParam \in {"WM_KEYDOWN", "WM_KEYUP"} :
           KeyboardNote(0, wParam, KbHook(0, "VK_LSHIFT"), << >>, Quiet(1), {})

InitRun == InitIdle({"cb1"})

NextRun == RunStart \/ RunLoop \/ RunStop \/ RunDown \/ RunUp \/ RunKey

SpecRun == InitRun /\ [][NextRun]_vars

InputEvents ==
    { "EVENT_KEY_PRESSED", "EVENT_KEY_RELEASED", "EVENT_KEY_TYPED",
      "EVENT_MOUSE_PRESSED", "EVENT_MOUSE_RELEASED", "EVENT_MOUSE_CLICKED",
      "EVENT_MOUSE_MOVED", "EVENT_MOUSE_DRAGGED", "EVENT_MOUSE_WHEEL" }

\* The step in which the loop of hook_run ends and hook_run returns.
LeavesLoop == pc = "loop" /\ pc' = "idle"

\* C19: a run that was asked to stop ends in one step of the hook thread,
\* taken between notifications and never inside one: in it HookDisabled is
\* dispatched while the input helper is still loaded, it is the last event
\* dispatched, and unload_input_helper is the last call made, after the
\* hooks were removed.  From then until hook_run is called again no
\* keyboard or mouse event is dispatched.
C19_DisabledThenUnload ==
    [][ /\ LeavesLoop
          => /\ Len(out') = 1
             /\ out'[1].ev.type = "EVENT_HOOK_DISABLED"
             /\ out'[1].helper
             /\ ~helper'
             /\ calls'[Len(calls')].call = "unload_input_helper"
             /\ \A i \in 1..(Len(calls') - 1) : calls'[i].call # "unload_input_helper"
             /\ keyboard_event_hhook' = NULL /\ mouse_event_hhook' = NULL
        /\ pc = "idle"
          => \A i \in 1..Len(out') : out'[i].ev.type \notin InputEvents ]_vars

\* hook_stop was called during a run with the button held; the thread took
\* WM_QUIT from its queue, removed its three hooks, dispatched HookDisabled
\* with the helper loaded and then unloaded the helper.
C19_Witness ==
    /\ note.call = "GetMessage" /\ note.message = "WM_QUIT"
    /\ pc = "idle"
    /\ click_count = 1
    /\ Len(out) = 1 /\ out[1].ev.type = "EVENT_HOOK_DISABLED" /\ out[1].helper
    /\ ~helper
    /\ Len(calls) = 4 /\ calls[4].call = "unload_input_helper"
    /\ status = UIOHOOK_SUCCESS

\* hook_run has just reached its message loop.
Started == note.call = "hook_run" /\ pc = "loop"

\* C20: when hook_run reaches its message loop, the first time and after a
\* stop alike, the click-tracking state is empty and the modifier mask is
\* what initialize_modifiers makes of the keys that are down.
C20_RestartResets ==
    Started
        => /\ click_count = 0
           /\ click_button = MOUSE_NOBUTTON
           /\ click_time = 0
           /\ last_click = <<0, 0>>
           /\ current_modifiers = initialize_modifiers(note.env.down)

\* The latest call was hook_run and a step of its startup failed: no module
\* handle, no window (RegisterClassEx or CreateWindowEx refused), or no
\* keyboard or mouse hook.
StartupFailed ==
    /\ note.call = "hook_run"
    /\ \/ hInst = NULL
       \/ \E i \in 1..Len(calls) :
              calls[i].call \in {"RegisterClassEx", "CreateWindowEx"} /\ ~calls[i].ok
       \/ ~note.env.kbok
       \/ ~note.env.msok

\* C21: a hook_run in which a step of the startup failed has returned with
\* a status other than success, without entering its loop and without
\* dispatching HookEnabled.
C21_StartupFailureAborts ==
    StartupFailed
        => /\ pc = "idle"
           /\ status # UIOHOOK_SUCCESS
           /\ \A i \in 1..Len(out) : out[i].ev.type # "EVENT_HOOK_ENABLED"

\* C22: when exactly one of the keyboard and the mouse hook was set,
\* hook_run has returned UIOHOOK_ERROR_SET_WINDOWS_HOOK_EX after one call
\* of UnhookWindowsHookEx, and of UnhookWinEvent when that hook was set, and
\* none of the three hooks is set.
C22_PartialHooksRemoved ==
    (note.call = "hook_run" /\ note.env.kbok # note.env.msok)
        => /\ pc = "idle"
           /\ status = UIOHOOK_ERROR_SET_WINDOWS_HOOK_EX
           /\ keyboard_event_hhook = NULL
           /\ mouse_event_hhook = NULL
           /\ win_event_hhook = NULL
           /\ Len(SelectSeq(calls, LAMBDA e : e.call = "UnhookWindowsHookEx")) = 1
           /\ Len(SelectSeq(calls, LAMBDA e : e.call = "UnhookWinEvent")) =
                  IF note.env.weok THEN 1 ELSE 0

\* The keyboard hook was set, the mouse hook was not, and hook_run returned
\* after removing the keyboard hook and the window-event hook.
C22_Witness ==
    /\ note.call = "hook_run"
    /\ note.env.kbok /\ ~note.env.msok /\ note.env.weok
    /\ pc = "idle"
    /\ keyboard_event_hhook = NULL
    /\ \E i, j \in 1..Len(calls) :
           /\ i < j
           /\ calls[i].call = "UnhookWinEvent"
           /\ calls[j].call = "UnhookWindowsHookEx"
    /\ status = UIOHOOK_ERROR_SET_WINDOWS_HOOK_EX

IsDisabled(e) == e.ev.type = "EVENT_HOOK_DISABLED"
IsEnabled(e) == e.ev.type = "EVENT_HOOK_ENABLED"

\* C28: a call of hook_run dispatches HookDisabled at most once, and only
\* after it dispatched HookEnabled: in the step that dispatches it the
\* thread was in its loop, which it enters after HookEnabled, or HookEnabled
\* comes before it in the same step.  A hook_run that returns without
\* having entered the loop has dispatched nothing.
C28_DisabledOnlyAfterEnabled ==
    [][ /\ \A i \in 1..Len(out') :
              IsDisabled(out'[i])
                => /\ \A j \in 1..Len(out') : IsDisabled(out'[j]) => j = i
                   /\ \/ pc = "loop"
                      \/ \E j \in 1..(i - 1) : IsEnabled(out'[j])
        /\ (note'.call = "hook_run" /\ pc' = "idle") => out' = << >> ]_vars

----------------------------------------------------------------------------
(* Runs with fair message delivery: a message that waits in the queue of   *)
(* the hook thread, or its quit flag, is taken in the end.                 *)

SpecRunFair == SpecRun /\ WF_vars(RunLoop)

\* hook_stop has just been called while hook_run was blocked in its loop.
StopAsked == note.call = "hook_stop" /\ pc = "loop"

\* C29: after a hook_stop called while hook_run is blocked in its loop,
\* hook_run returns in the end; in the first run and in every later one.
C29_StopEndsRun == StopAsked ~> (pc = "idle")

\* C30: when hook_post_event or hook_post_event_dont_move_mouse returns,
\* the caller's event has the type and the payload it was given with,
\* whatever the type and whatever the outcome.
C30_EventUnchanged == IsPost(note) => posted = note.event

\* The ten keys of extend_key_table.
ExtendedKeys == { extend_key_table[i] : i \in 1..Len(extend_key_table) }

\* C26: the request injected for a posted KeyPressed or KeyReleased event
\* has KEYEVENTF_EXTENDEDKEY exactly when a shift bit is set in the mask of
\* the event and the virtual key is one of the ten of the extended set.
C26_ExtendedIffShiftAndExtendedKey ==
    (IsKeyPost(note) /\ Injections(calls) # << >>)
        => LET input == Injections(calls)[1].input
           IN  "KEYEVENTF_EXTENDEDKEY" \in input.dwFlags
                   <=> /\ BitAnd(note.event.mask, MASK_SHIFT) # 0
                       /\ input.wVk \in ExtendedKeys

\* C27: the MouseReleased event of a release notification carries the
\* button the MousePressed event of the press notification of the same
\* button carries: left, right, middle, and for the X messages the button
\* HIWORD(mouseData) names.
C27_ReleaseCarriesPressButton ==
    /\ IsDown(note)
          => /\ out[1].ev.type = "EVENT_MOUSE_PRESSED"
             /\ out[1].ev.data.button = NoteButton(note.wParam, note.mshook.hiword)
    /\ IsUp(note)
          => /\ out[1].ev.type = "EVENT_MOUSE_RELEASED"
             /\ out[1].ev.data.button = NoteButton(note.wParam, note.mshook.hiword)

\* C25: the click count stays in 0..USHRT_MAX, and a press of the tracked
\* button at most the multi-click time after the press before it makes the
\* count one more, or leaves it at USHRT_MAX when it is there already: no
\* press takes the count from USHRT_MAX to a smaller value by counting on.
C25_ClickCountSaturates ==
    [][ /\ click_count' \in 0..USHRT_MAX
        /\ ( /\ IsDown(note')
             /\ Pressed(note') = click_button
             /\ Gap(note'.mshook.time, click_time) <= MultiClickTime )
              => click_count' = IF click_count = USHRT_MAX
                                  THEN USHRT_MAX
                                  ELSE click_count + 1 ]_vars

\* Button 1 was pressed twice in a row, the second time within the
\* multi-click time of the first, and the count is USHRT_MAX after the
\* second press: it was there after the first.
C25_Witness ==
    /\ IsDown(note)
    /\ Pressed(note) = MOUSE_BUTTON1
    /\ prevDown = MOUSE_BUTTON1
    /\ lastPress.soon
    /\ click_count = USHRT_MAX
    /\ PressedWith(MOUSE_BUTTON1, USHRT_MAX)

\* C24: a move to a position other than that of the latest click, while the
\* click count is not 0, makes the count 0 and carries clicks = 0 when it
\* comes more than the multi-click time after the latest press, and leaves
\* the count and carries it when it comes earlier.
C24_MoveResetsAfterInterval ==
    [][ ( /\ IsMove(note')
          /\ note'.mshook.pt # last_click
          /\ click_count # 0 )
          => LET clicks == IF Gap(note'.mshook.time, lastPress.time) > MultiClickTime
                             THEN 0
                             ELSE click_count
             IN  /\ click_count' = clicks
                 /\ Len(out') = 1
                 /\ out'[1].ev.type \in {"EVENT_MOUSE_MOVED", "EVENT_MOUSE_DRAGGED"}
                 /\ out'[1].ev.data.clicks = clicks ]_vars

----------------------------------------------------------------------------
(* Releases: buttons 1 and 2 go down, each while it is up, and go up, each *)
(* while it is down, at, within and past the multi-click time of the press *)
(* they release.                                                           *)

\* the ticks at, within and just past the multi-click time of the tick since
Around(since) == { (since + d) % TimeMod : d \in {0, MultiClickTime, MultiClickTime + 1} }

\* the button a button message is about
MsgButton(wParam) ==
    IF wParam \in {"WM_LBUTTONDOWN", "WM_LBUTTONUP"} THEN MOUSE_BUTTON1 ELSE MOUSE_BUTTON2

ReleaseDown ==
    \E wParam \in {"WM_LBUTTONDOWN", "WM_RBUTTONDOWN"}, t \in Around(click_time) :
        /\ pressTime[MsgButton(wParam)] = NoTime
        /\ MouseNote(0, wParam, MsHook(t, ClickPoint, 0, 0, 0), Quiet(1), {"times"})

ReleaseUp ==
    \E wParam \in {"WM_LBUTTONUP", "WM_RBUTTONUP"} :
        /\ pressTime[MsgButton(wParam)] # NoTime
        /\ \E t \in Around(pressTime[MsgButton(wParam)][1]) :
               MouseNote(0, wParam, MsHook(t, ClickPoint, 0, 0, 0), Quiet(2), {"times"})

InitRelease == InitFresh({{}}, {"cb1"})

NextRelease == ReleaseDown \/ ReleaseUp

SpecRelease == InitRelease /\ [][NextRelease]_vars

\* the button of a button-up notification
Released(n) == NoteButton(n.wParam, n.mshook.hiword)

\* C23: the release of a button produces MouseReleased with the click count
\* held before the release; after it the count is 0 when the release comes
\* more than the multi-click time after the press of that button, and is
\* unchanged otherwise, whatever other button went down in between.
C23_ReleaseKeepsOrResets ==
    [][ (IsUp(note') /\ pressTime[Released(note')] # NoTime)
          => /\ Len(out') >= 1
             /\ out'[1].ev.type = "EVENT_MOUSE_RELEASED"
             /\ out'[1].ev.data.clicks = click_count
             /\ click_count' =
                   IF Gap(note'.mshook.time, pressTime[Released(note')][1]) > MultiClickTime
                     THEN 0
                     ELSE click_count ]_vars

----------------------------------------------------------------------------
(* Two threads: the application calls hook_set_dispatch_proc on its own    *)
(* thread while the hook thread is in dispatch_event.  dispatch and        *)
(* dispatch_data are plain statics and nothing orders the two threads'     *)
(* accesses, so every store and every load is a step of its own; the two   *)
(* stores may reach memory in either order, and the callback called may be *)
(* the value the test saw or a second load.                                *)

\* what neither function touches
Untouched ==
    << current_modifiers, click_count, click_time, click_button, last_click,
       event, note, out, hook_result, calls, status, posted,
       hInst, keyboard_event_hhook, mouse_event_hhook, win_event_hhook,
       invisible_win_hwnd, run_status, pc, queue, quit, helper, class, window,
       lastPress, wheelSince, pressAt, pressTime, keyLast, prevDown >>

\* hook_set_dispatch_proc(dispatch_proc, user_data) is entered
SetterCall ==
    \E reg \in {NoSet} \cup Registrations :
        /\ race.left = {}
        /\ race' = [race EXCEPT !.left = {"dispatch", "dispatch_data"},
                                !.proc = reg.proc,
                                !.data = reg.data,
                                !.pairs = @ \cup {[proc |-> reg.proc, data |-> reg.data]}]
        /\ registered' = [proc |-> reg.proc, data |-> reg.data]
        /\ UNCHANGED << dispatch, dispatch_data, Untouched >>

\* one of its two stores; it returns after the second
SetterStore ==
    \E var \in race.left :
        /\ dispatch' = IF var = "dispatch" THEN race.proc ELSE dispatch
        /\ dispatch_data' = IF var = "dispatch_data" THEN race.data ELSE dispatch_data
        /\ race' = [race EXCEPT !.left = @ \ {var}]
        /\ UNCHANGED << registered, Untouched >>

\* dispatch_event is entered and tests dispatch != NULL; with NULL it logs
\* and returns
DispatchTest ==
    /\ race.at = "idle"
    /\ race' = IF dispatch # NULL
                 THEN [race EXCEPT !.at = "tested", !.fn = dispatch,
                                   !.toLoad = {"dispatch", "dispatch_data"}]
                 ELSE race
    /\ UNCHANGED << dispatch, dispatch_data, registered, Untouched >>

\* the operands of dispatch(event, dispatch_data), in either order; for the
\* callback the value of the test is used again or dispatch is loaded again
DispatchLoad ==
    \E var \in race.toLoad :
        /\ race.at = "tested"
        /\ \E fn \in IF var = "dispatch" THEN {race.fn, dispatch} ELSE {race.fn} :
               race' = [race EXCEPT !.fn = fn,
                                    !.arg = IF var = "dispatch_data"
                                              THEN dispatch_data ELSE @,
                                    !.toLoad = @ \ {var}]
        /\ UNCHANGED << dispatch, dispatch_data, registered, Untouched >>

\* the call itself, and the return from dispatch_event; a call of NULL ends
\* the thread
DispatchCall ==
    /\ race.at = "tested"
    /\ race.toLoad = {}
    /\ race' = [race EXCEPT !.at = IF race.fn = NULL THEN "crashed" ELSE "idle",
                            !.called = [proc |-> race.fn, data |-> race.arg,
                                        made |-> TRUE]]
    /\ UNCHANGED << dispatch, dispatch_data, registered, Untouched >>

InitRace == InitFresh({{}}, {NULL, "cb1"})

NextRace == SetterCall \/ SetterStore \/ DispatchTest \/ DispatchLoad \/ DispatchCall

SpecRace == InitRace /\ [][NextRace]_vars

\* C31: with hook_set_dispatch_proc running on another thread while events
\* are dispatched, every callback invoked is not NULL and is invoked with
\* the user data it was registered with in one hook_set_dispatch_proc call.
C31_CallbackWithItsData ==
    race.called.made
        => /\ race.called.proc # NULL
           /\ [proc |-> race.called.proc, data |-> race.called.data] \in race.pairs

====
